---- MODULE Spec2Model ----
(***************************************************************************)
(* Basket comparison of the grocery price API.                             *)
(*                                                                         *)
(* The catalog (products, supermarkets, prices) is the database the        *)
(* service reads; CompareService.compare_basket resolves the requested     *)
(* item and store names against it and assigns every item to its cheapest  *)
(* store.  Strings are sequences of characters, prices are integer cents   *)
(* (the code adds Decimal values and converts them to float only in the    *)
(* response; the conversion is exact and order preserving on two-decimal   *)
(* amounts of this size).                                                  *)
(***************************************************************************)
EXTENDS Integers, Sequences, FiniteSets, TLC

\* ------------------------------------------------------------------------
\* Bounds of the model
\* ------------------------------------------------------------------------
MaxPriceRows == 3
MaxItems == 2
MaxReqStores == 2

\* ------------------------------------------------------------------------
\* Generic helpers
\* ------------------------------------------------------------------------
\* Python's None where a Product is expected (row ids start at 1)
None == [id |-> 0, name |-> <<>>]

Range(s) == {s[i] : i \in DOMAIN s}

MinOf(S) == CHOOSE x \in S : \A y \in S : x <= y

MaxOf(S) == CHOOSE x \in S : \A y \in S : x >= y

RECURSIVE SumSeq(_)
SumSeq(s) == IF s = <<>> THEN 0 ELSE s[1] + SumSeq(Tail(s))

RECURSIVE Flatten(_)
Flatten(ss) == IF ss = <<>> THEN <<>> ELSE ss[1] \o Flatten(Tail(ss))

\* All sequences over S of length at most n
SeqsUpTo(S, n) == UNION {[1..k -> S] : k \in 0..n}

\* All orders in which the rows of a table (a set) can be returned
RECURSIVE Orders(_)
Orders(S) ==
    IF S = {} THEN {<<>>}
    ELSE UNION {{<<x>> \o q : q \in Orders(S \ {x})} : x \in S}

\* All rearrangements of a sequence
Reorderings(s) ==
    {[i \in DOMAIN s |-> s[p[i]]] :
        p \in {q \in [DOMAIN s -> DOMAIN s] : Range(q) = DOMAIN s}}

\* ------------------------------------------------------------------------
\* Characters.  A character is a one-element string; a character outside
\* ASCII is written by its name (e_acute, combining_acute).
\* ------------------------------------------------------------------------
UpperLetters == <<"A","B","C","D","E","F","G","H","I","J","K","L","M",
                  "N","O","P","Q","R","S","T","U","V","W","X","Y","Z">>

LowerLetters == <<"a","b","c","d","e","f","g","h","i","j","k","l","m",
                  "n","o","p","q","r","s","t","u","v","w","x","y","z">>

Digits == {"0","1","2","3","4","5","6","7","8","9"}

Whitespace == {" ", "\t"}

\* str.lower() on one character
lower(c) ==
    IF \E i \in DOMAIN UpperLetters : UpperLetters[i] = c
    THEN LowerLetters[CHOOSE i \in DOMAIN UpperLetters : UpperLetters[i] = c]
    ELSE IF c = "E_acute" THEN "e_acute"
    ELSE IF c = "N_tilde" THEN "n_tilde"
    ELSE c

\* unicodedata.normalize("NFKD", c) of one character
NFKD(c) ==
    IF c = "e_acute" THEN <<"e", "combining_acute">>
    ELSE IF c = "E_acute" THEN <<"E", "combining_acute">>
    ELSE IF c = "n_tilde" THEN <<"n", "combining_tilde">>
    ELSE IF c = "N_tilde" THEN <<"N", "combining_tilde">>
    ELSE IF c = "degree_celsius" THEN <<"degree_sign", "C">>
    ELSE <<c>>

\* unicodedata.combining(c) != 0
combining(c) == c \in {"combining_acute", "combining_tilde"}

\* str.strip()
strip(s) ==
    LET keep == {i \in DOMAIN s : s[i] \notin Whitespace}
    IN  IF keep = {} THEN <<>> ELSE SubSeq(s, MinOf(keep), MaxOf(keep))

\* str.lower()
lower_str(s) == [i \in DOMAIN s |-> lower(s[i])]

remove_accents(s) ==
    IF s = <<>> THEN <<>>
    ELSE LET nkfd == Flatten([i \in DOMAIN s |-> NFKD(s[i])])
         IN  SelectSeq(nkfd, LAMBDA c : ~combining(c))

\* re.sub(r"[^a-z0-9%\s]", " ", s)
replace_punctuation(s) ==
    [i \in DOMAIN s |->
        IF s[i] \in Range(LowerLetters) \cup Digits \cup {"%"} \cup Whitespace
        THEN s[i] ELSE " "]

\* re.sub(r"\s+", " ", s)
collapse_whitespace(s) ==
    LET first == {i \in DOMAIN s :
                    s[i] \notin Whitespace \/ i = 1 \/ s[i-1] \notin Whitespace}
        idx == [k \in 1..Cardinality(first) |->
                    CHOOSE i \in first : Cardinality({j \in first : j <= i}) = k]
    IN  [k \in DOMAIN idx |-> IF s[idx[k]] \in Whitespace THEN " " ELSE s[idx[k]]]

\* normalize_string without its last strip()
normalize_string_unstripped(s) ==
    IF s = <<>> THEN <<>>
    ELSE collapse_whitespace(replace_punctuation(remove_accents(lower_str(strip(s)))))

normalize_string(s) ==
    IF s = <<>> THEN <<>>
    ELSE strip(collapse_whitespace(replace_punctuation(
            remove_accents(lower_str(strip(s))))))

\* SYNONYMS_MAP as a set of <<alternative name, canonical name>> pairs
SYNONYMS_MAP ==
    {
       <<<<"b","e","l","l"," ","p","e","p","p","e","r">>,
         <<"b","e","l","l"," ","p","e","p","p","e","r">>>>,
       <<<<"c","a","p","s","i","c","u","m">>,
         <<"b","e","l","l"," ","p","e","p","p","e","r">>>>,
       <<<<"s","w","e","e","t"," ","p","e","p","p","e","r">>,
         <<"b","e","l","l"," ","p","e","p","p","e","r">>>>,
       <<<<"e","g","g","p","l","a","n","t">>,
         <<"e","g","g","p","l","a","n","t">>>>,
       <<<<"a","u","b","e","r","g","i","n","e">>,
         <<"e","g","g","p","l","a","n","t">>>>,
       <<<<"z","u","c","c","h","i","n","i">>,
         <<"z","u","c","c","h","i","n","i">>>>,
       <<<<"c","o","u","r","g","e","t","t","e">>,
         <<"z","u","c","c","h","i","n","i">>>>,
       <<<<"c","i","l","a","n","t","r","o">>,
         <<"c","i","l","a","n","t","r","o">>>>,
       <<<<"c","o","r","i","a","n","d","e","r">>,
         <<"c","i","l","a","n","t","r","o">>>>,
       <<<<"f","r","e","s","h"," ","c","o","r","i","a","n","d","e","r">>,
         <<"c","i","l","a","n","t","r","o">>>>,
       <<<<"a","r","u","g","u","l","a">>,
         <<"a","r","u","g","u","l","a">>>>,
       <<<<"r","o","c","k","e","t">>,
         <<"a","r","u","g","u","l","a">>>>,
       <<<<"r","o","c","k","e","t"," ","l","e","t","t","u","c","e">>,
         <<"a","r","u","g","u","l","a">>>>,
       <<<<"s","c","a","l","l","i","o","n">>,
         <<"g","r","e","e","n"," ","o","n","i","o","n">>>>,
       <<<<"g","r","e","e","n"," ","o","n","i","o","n">>,
         <<"g","r","e","e","n"," ","o","n","i","o","n">>>>,
       <<<<"s","p","r","i","n","g"," ","o","n","i","o","n">>,
         <<"g","r","e","e","n"," ","o","n","i","o","n">>>>,
       <<<<"g","r","o","u","n","d"," ","b","e","e","f">>,
         <<"g","r","o","u","n","d"," ","b","e","e","f">>>>,
       <<<<"m","i","n","c","e","d"," ","b","e","e","f">>,
         <<"g","r","o","u","n","d"," ","b","e","e","f">>>>,
       <<<<"g","r","o","u","n","d"," ","t","u","r","k","e","y">>,
         <<"g","r","o","u","n","d"," ","t","u","r","k","e","y">>>>,
       <<<<"m","i","n","c","e","d"," ","t","u","r","k","e","y">>,
         <<"g","r","o","u","n","d"," ","t","u","r","k","e","y">>>>,
       <<<<"i","c","e"," ","c","r","e","a","m">>,
         <<"i","c","e"," ","c","r","e","a","m">>>>,
       <<<<"i","c","e","c","r","e","a","m">>,
         <<"i","c","e"," ","c","r","e","a","m">>>>,
       <<<<"h","o","t"," ","d","o","g">>,
         <<"h","o","t"," ","d","o","g">>>>,
       <<<<"h","o","t","d","o","g">>,
         <<"h","o","t"," ","d","o","g">>>>,
       <<<<"f","r","a","n","k","f","u","r","t","e","r">>,
         <<"h","o","t"," ","d","o","g">>>>,
       <<<<"k","e","t","c","h","u","p">>,
         <<"k","e","t","c","h","u","p">>>>,
       <<<<"t","o","m","a","t","o"," ","s","a","u","c","e">>,
         <<"k","e","t","c","h","u","p">>>>,
       <<<<"c","a","t","s","u","p">>,
         <<"k","e","t","c","h","u","p">>>>
    }

normalize_item_name(s) ==
    LET base == normalize_string(s)
    IN  IF base = <<>> THEN <<>>
        ELSE IF \E e \in SYNONYMS_MAP : e[1] = base
        THEN (CHOOSE e \in SYNONYMS_MAP : e[1] = base)[2]
        ELSE base

\* store.lower().strip() of compare_basket
normalize_store_name(s) == strip(lower_str(s))

\* ------------------------------------------------------------------------
\* Names the catalog and the requests are drawn from.  With the seeded
\* catalogs below, a requested item or store name resolves in one catalog
\* and is unknown in another; Ghostmart is a store of no catalog.
\* ------------------------------------------------------------------------
Milk == <<"M","i","l","k">>

milk_sp == <<"m","i","l","k"," ">>

Eggs == <<"E","g","g","s">>

Walmart == <<"W","a","l","m","a","r","t">>

WALMART == <<" ","W","A","L","M","A","R","T">>

Target == <<"T","a","r","g","e","t">>

Ghostmart == <<"G","h","o","s","t","m","a","r","t">>

ProductNames == {Milk, milk_sp, Eggs}

StoreNames == {Walmart, WALMART, Target}

ItemNames == {milk_sp, Eggs}

RequestStoreNames == {WALMART, Target}

\* The prices of the catalog, in cents
PriceValues == {1, 2}

\* normalize_item_name and the store normalisation on the names in use
normalized_item == [n \in ProductNames \cup ItemNames |-> normalize_item_name(n)]

normalized_store ==
    [n \in StoreNames \cup RequestStoreNames \cup {Ghostmart} |-> normalize_store_name(n)]

\* ------------------------------------------------------------------------
\* CompareService.compare_basket, step by step.
\*   all_products, all_stores, price_rows: the rows the three queries
\*   return, in the order the database returns them.
\* ------------------------------------------------------------------------

\* Step 2: normalized product name -> first product with that name
normalized_product_name_to_product(all_products) ==
    LET names == {normalized_item[all_products[i].name] : i \in DOMAIN all_products}
                    \ {<<>>}
    IN  [n \in names |->
            all_products[MinOf({i \in DOMAIN all_products :
                                  normalized_item[all_products[i].name] = n})]]

\* Step 2: raw requested item -> product or None
item_to_product(items, all_products) ==
    LET by_name == normalized_product_name_to_product(all_products)
    IN  [item \in Range(items) |->
            IF normalized_item[item] \in DOMAIN by_name
            THEN by_name[normalized_item[item]] ELSE None]

\* Step 3: normalized store name -> first store with that name
store_name_to_store(all_stores) ==
    LET names == {normalized_store[all_stores[i].name] : i \in DOMAIN all_stores}
    IN  [n \in names |->
            all_stores[MinOf({i \in DOMAIN all_stores :
                                normalized_store[all_stores[i].name] = n})]]

\* store_objs giving up on the whole request when one name does not resolve
store_objs_strict(stores, all_stores) ==
    LET by_name == store_name_to_store(all_stores)
    IN  IF \E i \in DOMAIN stores : normalized_store[stores[i]] \notin DOMAIN by_name
        THEN <<>>
        ELSE [i \in DOMAIN stores |-> by_name[normalized_store[stores[i]]]]

\* Step 3: the requested stores that resolve, in request order
store_objs(stores, all_stores) ==
    LET by_name == store_name_to_store(all_stores)
        found == SelectSeq(stores, LAMBDA n : normalized_store[n] \in DOMAIN by_name)
    IN  [i \in DOMAIN found |-> by_name[normalized_store[found[i]]]]

\* build_prices_map keeping the first row returned for each pair
build_prices_map_first(rows, prices_map) ==
    LET keys == {<<rows[i].product_id, rows[i].store_id>> : i \in DOMAIN rows}
        first(key) == CHOOSE i \in DOMAIN rows :
                        /\ <<rows[i].product_id, rows[i].store_id>> = key
                        /\ \A j \in 1..(i - 1) :
                            <<rows[j].product_id, rows[j].store_id>> # key
    IN  [key \in keys |-> rows[first(key)].price] @@ prices_map

\* Step 4: fold of the price rows into (product_id, store_id) -> price
RECURSIVE build_prices_map(_, _)
build_prices_map(rows, prices_map) ==
    IF rows = <<>> THEN prices_map
    ELSE LET key == <<rows[1].product_id, rows[1].store_id>>
             price_value == rows[1].price
         IN  build_prices_map(Tail(rows),
                IF key \notin DOMAIN prices_map
                THEN (key :> price_value) @@ prices_map
                ELSE [prices_map EXCEPT ![key] =
                        IF price_value < @ THEN price_value ELSE @])

\* Step 5: the (store_id, price) pairs of a product, in store_ids order
candidates_of(product, store_ids, prices_map) ==
    LET with_price == SelectSeq(store_ids,
                        LAMBDA sid : <<product.id, sid>> \in DOMAIN prices_map)
    IN  [i \in DOMAIN with_price |->
            <<with_price[i], prices_map[<<product.id, with_price[i]>>]>>]

\* select_store preferring the store with the least running total whatever
\* its price
select_store_by_subtotal(candidates, store_totals) ==
    CHOOSE c \in Range(candidates) :
        \A d \in Range(candidates) :
            \/ store_totals[c[1]] < store_totals[d[1]]
            \/ /\ store_totals[c[1]] = store_totals[d[1]]
               /\ c[1] <= d[1]

\* select_store taking the first candidate without looking for the least price
select_store_first(candidates, store_totals) == candidates[1]

\* select_store with the tie broken by the store id alone
select_store_by_id(candidates, store_totals) ==
    LET min_price == MinOf({candidates[i][2] : i \in DOMAIN candidates})
        min_price_stores == SelectSeq(candidates, LAMBDA c : c[2] = min_price)
    IN  CHOOSE c \in Range(min_price_stores) :
            \A d \in Range(min_price_stores) : c[1] <= d[1]

\* Step 5: first element of min_price_stores after the tie-break sort
select_store(candidates, store_totals) ==
    LET min_price == MinOf({candidates[i][2] : i \in DOMAIN candidates})
        min_price_stores == SelectSeq(candidates, LAMBDA c : c[2] = min_price)
    IN  IF Len(min_price_stores) > 1
        THEN CHOOSE c \in Range(min_price_stores) :
                \A d \in Range(min_price_stores) :
                    \/ store_totals[c[1]] < store_totals[d[1]]
                    \/ /\ store_totals[c[1]] = store_totals[d[1]]
                       /\ c[1] <= d[1]
        ELSE min_price_stores[1]

\* add_to_total overwriting the running total
add_to_total_assign(store_totals, store_id, price) ==
    [store_totals EXCEPT ![store_id] = price]

\* Step 5: store_totals[selected_store_id] += selected_price
add_to_total(store_totals, store_id, price) ==
    [store_totals EXCEPT ![store_id] = @ + price]

\* Step 5: an item without candidates joins unmatched unless it is there
add_unmatched(unmatched, item) ==
    IF item \in Range(unmatched) THEN unmatched ELSE Append(unmatched, item)

\* Step 5: the loop over request.items; acc holds compare_items,
\* store_totals and unmatched
RECURSIVE assign_items(_, _, _, _, _, _)
assign_items(items, products_of, store_ids, prices_map, store_id_to_name, acc) ==
    IF items = <<>> THEN acc
    ELSE
      LET item == Head(items)
          product == products_of[item]
          rest == Tail(items)
      IN  IF product = None
          THEN assign_items(rest, products_of, store_ids, prices_map,
                            store_id_to_name, acc)
          ELSE
            LET candidates == candidates_of(product, store_ids, prices_map)
            IN  IF candidates = <<>>
                THEN assign_items(rest, products_of, store_ids, prices_map,
                        store_id_to_name,
                        [acc EXCEPT !.unmatched = add_unmatched(@, item)])
                ELSE
                  LET selected == select_store(candidates, acc.store_totals)
                  IN  assign_items(rest, products_of, store_ids, prices_map,
                        store_id_to_name,
                        [acc EXCEPT
                            !.compare_items = Append(@,
                                [name |-> item,
                                 store |-> store_id_to_name[selected[1]],
                                 price |-> selected[2]]),
                            !.store_totals =
                                add_to_total(@, selected[1], selected[2])])

\* Step 6: total of one store over every requested item it has a price for
store_complete_total(store_id, items, products_of, prices_map) ==
    SumSeq([i \in DOMAIN items |->
        IF products_of[items[i]] # None
           /\ <<products_of[items[i]].id, store_id>> \in DOMAIN prices_map
        THEN prices_map[<<products_of[items[i]].id, store_id>>] ELSE 0])

\* Step 6: overallTotal
overall_total(store_ids, items, products_of, prices_map) ==
    LET store_complete_totals ==
            [sid \in Range(store_ids) |->
                store_complete_total(sid, items, products_of, prices_map)]
        stores_with_all_items ==
            {store_complete_totals[sid] : sid \in Range(store_ids)} \ {t \in Int : t <= 0}
    IN  IF stores_with_all_items # {} THEN MinOf(stores_with_all_items) ELSE 0

\* The distinct elements of a sequence in order of first occurrence
\* (the key order of a dict filled from it)
\* A list kept as it is, repeated elements included
dict_keys_keep_all(s) == s

dict_keys(s) ==
    LET firsts == {i \in DOMAIN s : \A j \in 1..(i-1) : s[j] # s[i]}
    IN  [k \in 1..Cardinality(firsts) |->
            s[CHOOSE i \in firsts : Cardinality({j \in firsts : j <= i}) = k]]

\* Step 4: product_ids and store_ids of the price query (empty when the
\* function returns before the query)
product_ids_of(items, all_products) ==
    LET products_of == item_to_product(items, all_products)
    IN  {products_of[item].id : item \in {it \in Range(items) : products_of[it] # None}}

store_ids_of(stores, all_stores) ==
    LET objs == store_objs(stores, all_stores)
    IN  [i \in DOMAIN objs |-> objs[i].id]

\* Step 4: the rows of table prices the query selects
queried_prices(price_table, product_ids, store_ids) ==
    IF product_ids # {} /\ store_ids # <<>>
    THEN {r \in price_table : r.product_id \in product_ids
                              /\ r.store_id \in Range(store_ids)}
    ELSE {}

\* no_stores_response returning only the items step 2 found unmatched
no_stores_response_step2(items, unmatched) ==
    [items |-> <<>>, storeTotals |-> <<>>, overallTotal |-> 0,
     unmatched |-> unmatched]

\* Step 3: the response when no requested store resolves
no_stores_response(items, unmatched) ==
    [items |-> <<>>, storeTotals |-> <<>>, overallTotal |-> 0,
     unmatched |-> items]

\* Steps 1-3, 5 and 6 of compare_basket, given the prices_map of step 4
compare_with_prices(items, stores, all_products, all_stores, prices_map) ==
    LET products_of == item_to_product(items, all_products)
        unmatched == SelectSeq(items, LAMBDA item : products_of[item] = None)
        objs == store_objs(stores, all_stores)
    IN  IF objs = <<>>
        THEN no_stores_response(items, unmatched)
        ELSE
          LET store_ids == [i \in DOMAIN objs |-> objs[i].id]
              store_id_to_name == [sid \in Range(store_ids) |->
                    objs[MaxOf({i \in DOMAIN objs : objs[i].id = sid})].name]
              result == assign_items(items, products_of, store_ids, prices_map,
                            store_id_to_name,
                            [compare_items |-> <<>>,
                             store_totals |-> [sid \in Range(store_ids) |-> 0],
                             unmatched |-> unmatched])
              keys == dict_keys(store_ids)
          IN  [items |-> result.compare_items,
               storeTotals |-> [k \in DOMAIN keys |->
                    [store |-> store_id_to_name[keys[k]],
                     total |-> result.store_totals[keys[k]]]],
               overallTotal |-> overall_total(store_ids, items, products_of, prices_map),
               unmatched |-> result.unmatched]

\* price_rows: the rows the price query returned, in order
compare_basket(items, stores, all_products, all_stores, price_rows) ==
    compare_with_prices(items, stores, all_products, all_stores,
                        build_prices_map(price_rows, <<>>))

\* ------------------------------------------------------------------------
\* State
\* ------------------------------------------------------------------------
VARIABLES
    products,       \* table products: set of [id, name]
    supermarkets,   \* table supermarkets: set of [id, name]
    prices,         \* table prices: set of [product_id, store_id, price]
    request,        \* the CompareRequest being served, or NoRequest
    all_products,   \* rows returned by db.query(Product).all(), in order
    all_stores,     \* rows returned by db.query(Supermarket).all(), in order
    response        \* the CompareResponse returned for request

\* The matcher (scorer.filter_and_pick_best): one call at a time
VARIABLES
    matcher_pc,     \* "idle" or "returned"
    spec,           \* the ProductSpec of the call
    offers,         \* the offers of the call
    top_k,          \* its top_k
    best,           \* the first component of the value returned
    ranked,         \* the second component
    match_result    \* the MatchResult that match_best_offer returned

\* The scraper manager (scrapers/manager.py): one manager, one call at a time
VARIABLES
    manager_pc,     \* "idle" (no manager), "new", "ready", the method under way,
                    \* "returned" or "raised"
    side_effect,    \* per registered store: the exception its search is patched
                    \* to raise, or Null
    fetched,        \* per registered store: what its _fetch_products does
    scraped,        \* per store of the legacy manager: what its scrape function does
    stores_arg,     \* the stores argument: of ScraperManager(stores), and of the
                    \* legacy get_offers(query, stores)
    scrapers,       \* self.scrapers: its keys in dict order
    method,         \* the call under way or last made: [name, max_workers, store, query]
    searched,       \* the stores whose search was called, in order of the calls
    loop_index,     \* get_offers: the number of scrapers the loop has done
    all_offers,     \* the local all_offers of the call
    futures,        \* get_offers_parallel: the future of each scraper submitted
    yielded,        \* the futures as_completed has yielded
    call_result     \* what the call returned or raised

\* The normalization functions (normalization.py) applied over and over
VARIABLES
    normalize_fn,   \* the function applied: "normalize_string" or "normalize_item_name"
    normalize_arg,  \* the string given to the first application
    normalize_out   \* what each application returned, each given what the one
                    \* before returned

\* build_product_spec (normalization.py) called on its own
VARIABLES
    build_name,      \* the name argument
    build_variants,  \* the variants argument
    build_out        \* the ProductSpec returned, in a list empty before the call

\* async_refresh_shopping_list (refresh_service.py)
VARIABLES
    refresh_pc,       \* where the coroutine is: "idle", "item", "while", "sleep",
                      \* "process", "returned" or "raised"
    refresh_env,      \* the value of SCRAPER_MAX_RETRIES in the environment
    refresh_found,    \* whether db.get finds the shopping list
    refresh_list,     \* sl.items
    refresh_index,    \* the place in sl.items of the item of the for loop
    refresh_attempt,  \* attempt
    refresh_offers,   \* offers
    scrape_log,       \* for each item begun, what each call of the scraper did
    item_rows,        \* for each item, the row of the item as committed
    refresh_summary,  \* summary
    last_refreshed    \* whether sl.last_refreshed was set and committed

\* The scraper routes (routes/scraper.py) on one event loop
VARIABLES
    _scrape_in_progress,  \* the module's flag
    app_env,              \* settings.app_env
    scrape_handled,       \* the requests handled so far, each with its endpoint and the status
                          \* of its response, "pending" while the handler has not returned
    scrape_queue,         \* the requests whose background task was added and has not started
    scrape_running        \* the requests whose scrape_all_products call has begun and not ended

\* The scheduler (services/scheduler.py) on one event loop
VARIABLES
    _scheduler_task,  \* the module's task: 0 for None, else the number of a loop task
    _stop_event,      \* the module's event: 0 for None, else the number of an event
    stop_event_set,   \* for each asyncio.Event created, whether it is set
    loop_pc,          \* for each loop task created, where _scheduler_loop is: "created",
                      \* "pass", "wait" or "done"
    loop_event,       \* for each loop task, the event whose wait() it awaits, 0 when none
    start_calls,      \* what each start_scheduler call did
    stop_calls        \* for each stop_scheduler call, the task it awaits (0 when there was
                      \* none) and whether the call has returned

\* filter_and_pick_best of the shopping lists (matching/scorer.py): one call at a time
VARIABLES
    matching_pc,      \* "idle", "called" or "returned"
    matching_spec,    \* the ProductSpec of the call
    matching_offers,  \* the offers of the call
    best_offer,       \* the first component of the value returned
    filtered_offers   \* the second component

compare_vars == <<products, supermarkets, prices, request, all_products, all_stores, response>>

matcher_vars == <<matcher_pc, spec, offers, top_k, best, ranked, match_result>>

manager_vars == <<manager_pc, side_effect, fetched, scraped, stores_arg, scrapers, method,
                  searched, loop_index, all_offers, futures, yielded, call_result>>

normalize_vars == <<normalize_fn, normalize_arg, normalize_out>>

build_vars == <<build_name, build_variants, build_out>>

refresh_vars == <<refresh_pc, refresh_env, refresh_found, refresh_list, refresh_index, refresh_attempt, refresh_offers, scrape_log, item_rows, refresh_summary, last_refreshed>>

scrape_vars == <<_scrape_in_progress, app_env, scrape_handled, scrape_queue, scrape_running>>

scheduler_vars == <<_scheduler_task, _stop_event, stop_event_set, loop_pc, loop_event, start_calls, stop_calls>>

matching_vars == <<matching_pc, matching_spec, matching_offers, best_offer, filtered_offers>>

\* The variables of the parts that follow the scraper manager
later_vars == <<normalize_vars,
               build_vars,
               refresh_vars,
               scrape_vars,
               scheduler_vars,
               matching_vars>>

vars == <<compare_vars, matcher_vars, manager_vars, later_vars>>

\* Python's None where a string is expected
Null == <<"None">>

\* None where an offer is expected
NoOffer == [kind |-> "None"]

NoMatchResult == [kind |-> "None"]

NoSpec == [name |-> <<>>, tokens |-> <<>>, brand |-> Null, category |-> Null,
           variants |-> <<>>, matched_rules |-> <<>>]

\* No call of the matcher is under way
matcher_idle ==
    /\ matcher_pc = "idle"
    /\ spec = NoSpec
    /\ offers = <<>>
    /\ top_k = 0
    /\ best = NoOffer
    /\ ranked = <<>>
    /\ match_result = NoMatchResult

\* No call has been made
NoMethod == [name |-> "none"]

\* Nothing was returned or raised yet
NoResult == [kind |-> "none"]

\* There is no scraper manager
manager_idle ==
    /\ manager_pc = "idle"
    /\ side_effect = <<>>
    /\ fetched = <<>>
    /\ scraped = <<>>
    /\ stores_arg = <<>>
    /\ scrapers = <<>>
    /\ method = NoMethod
    /\ searched = <<>>
    /\ loop_index = 0
    /\ all_offers = <<>>
    /\ futures = <<>>
    /\ yielded = {}
    /\ call_result = NoResult

\* SCRAPER_MAX_RETRIES is not looked at
NoProductSpec == [category_code |-> <<>>, category_label |-> <<>>, brand |-> Null,
                  variants |-> <<>>]

NoEnv == [int |-> FALSE, value |-> 0]

\* There is no summary yet
NoSummary == [updated_items |-> 0, errors |-> <<>>, last_refreshed |-> FALSE]

\* No normalization is asked for
normalize_idle ==
    /\ normalize_fn = "none"
    /\ normalize_arg = <<>>
    /\ normalize_out = <<>>

\* build_product_spec is not called
build_idle ==
    /\ build_name = <<>>
    /\ build_variants = <<>>
    /\ build_out = <<>>

\* No refresh is asked for
refresh_idle ==
    /\ refresh_pc = "idle"
    /\ refresh_env = NoEnv
    /\ refresh_found = FALSE
    /\ refresh_list = <<>>
    /\ refresh_index = 0
    /\ refresh_attempt = 0
    /\ refresh_offers = <<>>
    /\ scrape_log = <<>>
    /\ item_rows = <<>>
    /\ refresh_summary = NoSummary
    /\ last_refreshed = FALSE

\* No request has reached the scraper routes
scrape_idle ==
    /\ _scrape_in_progress = FALSE
    /\ app_env = "development"
    /\ scrape_handled = <<>>
    /\ scrape_queue = {}
    /\ scrape_running = {}

\* The scheduler was never started
scheduler_idle ==
    /\ _scheduler_task = 0
    /\ _stop_event = 0
    /\ stop_event_set = <<>>
    /\ loop_pc = <<>>
    /\ loop_event = <<>>
    /\ start_calls = <<>>
    /\ stop_calls = <<>>

\* filter_and_pick_best of the shopping lists is not called
matching_idle ==
    /\ matching_pc = "idle"
    /\ matching_spec = NoProductSpec
    /\ matching_offers = <<>>
    /\ best_offer = NoOffer
    /\ filtered_offers = <<>>

\* The parts that follow the scraper manager are at rest
later_idle ==
    /\ normalize_idle
    /\ build_idle
    /\ refresh_idle
    /\ scrape_idle
    /\ scheduler_idle
    /\ matching_idle

NoRequest == [items |-> <<>>, stores |-> <<>>, served |-> FALSE]

NoResponse == [items |-> <<>>, storeTotals |-> <<>>, overallTotal |-> 0,
               unmatched |-> <<>>]

\* The products and stores of the tests' seed_test_data
SeedProducts == {[id |-> 1, name |-> Milk], [id |-> 2, name |-> Eggs]}

SeedStores == {[id |-> 1, name |-> Walmart], [id |-> 2, name |-> Target]}

\* The catalogs the database is seeded with: the seed as it is, or with the
\* second product or the second store renamed to a name that normalizes to
\* the first one's
SeedCatalogs ==
    { <<SeedProducts, SeedStores>>,
      <<{[id |-> 1, name |-> Milk], [id |-> 2, name |-> milk_sp]}, SeedStores>>,
      <<SeedProducts, {[id |-> 1, name |-> Walmart], [id |-> 2, name |-> WALMART]}>> }

Init ==
    /\ \E catalog \in SeedCatalogs :
        /\ products = catalog[1]
        /\ supermarkets = catalog[2]
    /\ prices = {}
    /\ request = NoRequest
    /\ all_products = <<>>
    /\ all_stores = <<>>
    /\ response = NoResponse
    /\ matcher_idle
    /\ manager_idle
    /\ later_idle

\* POST /prices: the product and the store must exist, the price is > 0
create_price(product_id, store_id, price) ==
    /\ ~request.served
    /\ Cardinality(prices) < MaxPriceRows
    /\ \E p \in products : p.id = product_id
    /\ \E s \in supermarkets : s.id = store_id
    /\ price > 0
    /\ prices' = prices \cup
            {[product_id |-> product_id, store_id |-> store_id, price |-> price]}
    /\ UNCHANGED <<products, supermarkets, request, all_products, all_stores, response>>
    /\ UNCHANGED matcher_vars
    /\ UNCHANGED manager_vars
    /\ UNCHANGED later_vars

\* One call of CompareService.compare_basket(request, db); the three
\* queries return the rows of their tables in an order the database
\* chooses, and step 4 folds the price rows into prices_map in that order
call_compare_basket(items, stores) ==
    /\ ~request.served
    /\ \E qp \in Orders(products), qs \in Orders(supermarkets) :
        \E prices_map \in
              {build_prices_map(qr, <<>>) :
                  qr \in Orders(queried_prices(prices, product_ids_of(items, qp),
                                               store_ids_of(stores, qs)))} :
            /\ all_products' = qp
            /\ all_stores' = qs
            /\ response' = compare_with_prices(items, stores, qp, qs, prices_map)
    /\ request' = [items |-> items, stores |-> stores, served |-> TRUE]
    /\ UNCHANGED <<products, supermarkets, prices>>
    /\ UNCHANGED matcher_vars
    /\ UNCHANGED manager_vars
    /\ UNCHANGED later_vars

\* The response has been sent; the service is ready for the next request
respond ==
    /\ request.served
    /\ request' = NoRequest
    /\ all_products' = <<>>
    /\ all_stores' = <<>>
    /\ response' = NoResponse
    /\ UNCHANGED <<products, supermarkets, prices>>
    /\ UNCHANGED matcher_vars
    /\ UNCHANGED manager_vars
    /\ UNCHANGED later_vars

Next ==
    \/ \E p \in products, s \in supermarkets, price \in PriceValues :
            create_price(p.id, s.id, price)
    \/ \E items \in SeqsUpTo(ItemNames, MaxItems),
          stores \in SeqsUpTo(RequestStoreNames, MaxReqStores) :
            call_compare_basket(items, stores)
    \/ respond

Spec == Init /\ [][Next]_vars

\* The catalog as the tests' seed_test_data leaves it: every product has one
\* price at every store
SeededPrices ==
    LET pairs == {1, 2} \X {1, 2}
    IN  {{[product_id |-> pr[1], store_id |-> pr[2], price |-> f[pr]] : pr \in pairs} :
            f \in [pairs -> PriceValues]}

InitSeeded ==
    /\ products = SeedProducts
    /\ supermarkets = SeedStores
    /\ prices \in SeededPrices
    /\ request = NoRequest
    /\ all_products = <<>>
    /\ all_stores = <<>>
    /\ response = NoResponse
    /\ matcher_idle
    /\ manager_idle
    /\ later_idle

NextSeeded ==
    \/ \E items \in SeqsUpTo(ItemNames, MaxItems),
          stores \in SeqsUpTo(RequestStoreNames, MaxReqStores) :
            call_compare_basket(items, stores)
    \/ respond

SpecSeeded == InitSeeded /\ [][NextSeeded]_vars

\* The service on the seed catalog as it is: prices are created, baskets
\* compared
InitPlain ==
    /\ products = SeedProducts
    /\ supermarkets = SeedStores
    /\ prices = {}
    /\ request = NoRequest
    /\ all_products = <<>>
    /\ all_stores = <<>>
    /\ response = NoResponse
    /\ matcher_idle
    /\ manager_idle
    /\ later_idle

SpecPlain == InitPlain /\ [][Next]_vars

\* ------------------------------------------------------------------------
\* Vocabulary of the properties, read off the catalog tables and the rows
\* the queries returned, not off the algorithm's intermediate values
\* ------------------------------------------------------------------------

\* The product a requested item resolves to (None when there is none)
ProductOfItem(item) ==
    LET same == {i \in DOMAIN all_products :
                    /\ normalized_item[item] # <<>>
                    /\ normalized_item[all_products[i].name] = normalized_item[item]}
    IN  IF same = {} THEN None ELSE all_products[MinOf(same)]

\* The catalog store a requested store name resolves to, as a set (empty
\* when the name resolves to no store)
StoreOfName(name) ==
    LET same == {i \in DOMAIN all_stores :
                    normalized_store[all_stores[i].name] = normalized_store[name]}
    IN  IF same = {} THEN {} ELSE {all_stores[MinOf(same)]}

\* The resolved requested stores
ResolvedStores == UNION {StoreOfName(request.stores[i]) : i \in DOMAIN request.stores}

\* The prices table has a price for the product at the store
HasPrice(product, store) ==
    \E r \in prices : r.product_id = product.id /\ r.store_id = store.id

\* The price of a product at a store: the least of its price rows
PriceAt(product, store) ==
    MinOf({r.price : r \in {q \in prices : q.product_id = product.id
                                           /\ q.store_id = store.id}})

\* The resolved stores that have a price for the product
Offering(product) == {s \in ResolvedStores : HasPrice(product, s)}

\* The least price of the product over the resolved stores offering it
MinPrice(product) == MinOf({PriceAt(product, s) : s \in Offering(product)})

\* The resolved stores offering the product at its least price
Cheapest(product) == {s \in Offering(product) : PriceAt(product, s) = MinPrice(product)}

\* Sum of the prices of the first k response items assigned to the store
RECURSIVE AssignedTotal(_, _, _)
AssignedTotal(entries, k, store_name) ==
    IF k = 0 THEN 0
    ELSE AssignedTotal(entries, k - 1, store_name)
         + (IF entries[k].store = store_name THEN entries[k].price ELSE 0)

\* ------------------------------------------------------------------------
\* C1: every entry of the response's items carries the least price of its
\* item's product over the resolved requested stores that have a price for
\* it, and names one of the stores offering that least price.
\* ------------------------------------------------------------------------
C1_MinPriceAssigned ==
    request.served =>
        \A i \in DOMAIN response.items :
            LET e == response.items[i]
                product == ProductOfItem(e.name)
            IN  /\ product # None
                /\ Offering(product) # {}
                /\ e.price = MinPrice(product)
                /\ \E s \in Cheapest(product) : s.name = e.store

\* An item was assigned while two resolved stores offer it at different prices
C1_Witness ==
    /\ request.served
    /\ \E i \in DOMAIN response.items :
        LET product == ProductOfItem(response.items[i].name)
        IN  \E s \in Offering(product) : PriceAt(product, s) > response.items[i].price

\* ------------------------------------------------------------------------
\* C2: when several resolved stores tie at an item's least price, the item
\* goes to the tied store with the lowest running subtotal (the prices of
\* the items assigned to it earlier in the same pass), and among tied stores
\* of equal subtotal to the one with the smallest store id.
\* ------------------------------------------------------------------------
C2_TieBreak ==
    request.served =>
        \A i \in DOMAIN response.items :
            LET e == response.items[i]
                product == ProductOfItem(e.name)
                Subtotal(s) == AssignedTotal(response.items, i - 1, s.name)
            IN  \E s \in Cheapest(product) :
                    /\ s.name = e.store
                    /\ \A o \in Cheapest(product) :
                        \/ Subtotal(s) < Subtotal(o)
                        \/ Subtotal(s) = Subtotal(o) /\ s.id <= o.id

\* A tie was decided by the running subtotal against the smaller store id
C2_Witness ==
    /\ request.served
    /\ \E i \in DOMAIN response.items :
        LET e == response.items[i]
            product == ProductOfItem(e.name)
        IN  \E s, o \in Cheapest(product) :
                /\ s.name = e.store
                /\ o.id < s.id
                /\ AssignedTotal(response.items, i - 1, o.name)
                        > AssignedTotal(response.items, i - 1, s.name)

\* The product of the i-th entry of the response's items
ProductOfEntry(i) == ProductOfItem(response.items[i].name)

\* The resolved stores with a price for every assigned item
CompleteStores ==
    {s \in ResolvedStores :
        \A i \in DOMAIN response.items : HasPrice(ProductOfEntry(i), s)}

\* The price of the whole assigned basket at a store of CompleteStores
CompleteTotal(s) ==
    SumSeq([i \in DOMAIN response.items |-> PriceAt(ProductOfEntry(i), s)])

\* Number of occurrences of x in a sequence
Count(s, x) == Cardinality({i \in DOMAIN s : s[i] = x})

\* The price rows the query of the current request selects for a store list
QueriedNow(stores) ==
    queried_prices(prices, product_ids_of(request.items, all_products),
                   store_ids_of(stores, all_stores))

\* The prices_maps step 4 builds from the rows queried for a store list,
\* over every order in which the query can return them
PricesMapsNow(stores) ==
    {build_prices_map(qr, <<>>) : qr \in Orders(QueriedNow(stores))}

\* ------------------------------------------------------------------------
\* C3 (as claimed): overallTotal is the least positive complete-basket
\* total over the resolved stores that price every matched item, and 0 when
\* no resolved store prices every matched item.
\* ------------------------------------------------------------------------
C3_OverallIsCompleteBasketMin ==
    (request.served /\ ResolvedStores # {}) =>
        LET totals == {CompleteTotal(s) : s \in CompleteStores} \ {0}
        IN  response.overallTotal = IF totals = {} THEN 0 ELSE MinOf(totals)

\* ------------------------------------------------------------------------
\* C4 (as claimed): when storeTotals has an entry, overallTotal is >= 0 and
\* not above the sum of the totals in storeTotals.
\* ------------------------------------------------------------------------
C4_OverallWithinStoreTotals ==
    (request.served /\ response.storeTotals # <<>>) =>
        /\ response.overallTotal >= 0
        /\ response.overallTotal <=
                SumSeq([k \in DOMAIN response.storeTotals |->
                            response.storeTotals[k].total])

\* ------------------------------------------------------------------------
\* C5: with a resolved store, storeTotals has exactly one entry per resolved
\* requested store and each total is the sum of the prices of the response
\* items assigned to that store (0 when none is).
\* ------------------------------------------------------------------------
C5_StoreTotals ==
    (request.served /\ ResolvedStores # {}) =>
        /\ Len(response.storeTotals) = Cardinality(ResolvedStores)
        /\ {response.storeTotals[k].store : k \in DOMAIN response.storeTotals}
                = {s.name : s \in ResolvedStores}
        /\ \A k \in DOMAIN response.storeTotals :
                response.storeTotals[k].total =
                    AssignedTotal(response.items, Len(response.items),
                                  response.storeTotals[k].store)

\* Two items went to one store while another resolved store got none
C5_Witness ==
    /\ request.served
    /\ \E k, j \in DOMAIN response.storeTotals :
        /\ response.storeTotals[k].total = 0
        /\ Cardinality({i \in DOMAIN response.items :
                response.items[i].store = response.storeTotals[j].store}) = 2

\* ------------------------------------------------------------------------
\* C6 (as claimed): with a resolved store, every requested item occurrence
\* is in exactly one of items and unmatched, so their lengths add up to the
\* number of requested items; an item without product, or without a price
\* at any resolved store, is in unmatched.
\* ------------------------------------------------------------------------
C6_ItemsPartitioned ==
    (request.served /\ ResolvedStores # {}) =>
        LET names == [i \in DOMAIN response.items |-> response.items[i].name]
        IN  /\ Len(response.items) + Len(response.unmatched) = Len(request.items)
            /\ \A item \in Range(request.items) :
                /\ ~(item \in Range(names) /\ item \in Range(response.unmatched))
                /\ Count(names, item) + Count(response.unmatched, item)
                        = Count(request.items, item)
                /\ (ProductOfItem(item) = None \/ Offering(ProductOfItem(item)) = {})
                        => item \in Range(response.unmatched)

\* ------------------------------------------------------------------------
\* C7: requested store names that resolve to no store are dropped: the
\* response is the one compare_basket gives for the resolvable names alone
\* (whatever the order in which the price rows come back), adding one more
\* unresolvable name anywhere in the list changes neither the price rows
\* queried nor the response, and no storeTotals entry names an unresolvable
\* store.
\* ------------------------------------------------------------------------
C7_UnknownStoresDropped ==
    request.served =>
        LET known == SelectSeq(request.stores, LAMBDA n : StoreOfName(n) # {})
            WithGhost(k) == SubSeq(request.stores, 1, k) \o <<Ghostmart>>
                            \o SubSeq(request.stores, k + 1, Len(request.stores))
            prices_maps == PricesMapsNow(known)
        IN  /\ \A prices_map \in prices_maps :
                compare_with_prices(request.items, known, all_products,
                                    all_stores, prices_map) = response
            /\ \A k \in 0..Len(request.stores) :
                /\ QueriedNow(WithGhost(k)) = QueriedNow(known)
                /\ \A prices_map \in prices_maps :
                    compare_with_prices(request.items, WithGhost(k), all_products,
                                        all_stores, prices_map) = response
            /\ \A k \in DOMAIN response.storeTotals :
                /\ response.storeTotals[k].store # Ghostmart
                /\ \A i \in DOMAIN request.stores :
                    StoreOfName(request.stores[i]) = {}
                        => response.storeTotals[k].store # request.stores[i]

\* A request naming a store of the catalog and a store that is not, with
\* an item assigned
C7_Witness ==
    /\ request.served
    /\ response.items # <<>>
    /\ \E i \in DOMAIN request.stores : StoreOfName(request.stores[i]) = {}

\* ------------------------------------------------------------------------
\* C8: when no requested store name resolves, the response has no items,
\* no store totals, overallTotal 0 and unmatched equal to the requested
\* items in request order.
\* ------------------------------------------------------------------------
C8_NoStoreResolved ==
    (request.served /\ ResolvedStores = {}) =>
        response = [items |-> <<>>, storeTotals |-> <<>>, overallTotal |-> 0,
                    unmatched |-> request.items]

\* No store resolved for a request with a store name and two items, one of
\* them a product of the catalog with a price
C8_Witness ==
    /\ request.served
    /\ ResolvedStores = {}
    /\ request.stores # <<>>
    /\ Len(request.items) = 2
    /\ \E i \in DOMAIN request.items :
        /\ ProductOfItem(request.items[i]) # None
        /\ \E r \in prices : r.product_id = ProductOfItem(request.items[i]).id

\* The requested item has two resolved stores tied at its least price
Tied(item) ==
    /\ ProductOfItem(item) # None
    /\ Cardinality(Cheapest(ProductOfItem(item))) > 1

\* The prices of the entries of a response, in order
PricesOf(entries) == [i \in DOMAIN entries |-> entries[i].price]

\* ------------------------------------------------------------------------
\* C9: served with the requested items in any other order (same stores,
\* same catalog, the price rows coming back in any order), compare_basket
\* returns the same set of unmatched
\* items; every entry it assigns has the price the served response gives
\* that item, and the same store unless that item has two stores tied at
\* its least price; so when no requested item has such a tie the multiset
\* of chosen prices and the store of every item are those of the served
\* response.
\* ------------------------------------------------------------------------
C9_ReorderingItems ==
    request.served =>
        LET NoTies == \A i \in DOMAIN request.items : ~Tied(request.items[i])
        IN
        \A prices_map \in PricesMapsNow(request.stores) :
            \A perm \in Reorderings(request.items) :
                LET other == compare_with_prices(perm, request.stores, all_products,
                                                 all_stores, prices_map)
                IN  /\ Range(other.unmatched) = Range(response.unmatched)
                    /\ \A e \in Range(other.items) :
                        \E f \in Range(response.items) :
                            /\ f.name = e.name
                            /\ f.price = e.price
                            /\ ~Tied(e.name) => f.store = e.store
                    /\ NoTies =>
                        /\ \A p \in PriceValues :
                            Count(PricesOf(other.items), p)
                                = Count(PricesOf(response.items), p)
                        /\ Range(other.items) = Range(response.items)

\* Two different items assigned at different prices, none of them with a
\* tie, one of them with a dearer offer at the other store
C9_Witness ==
    /\ request.served
    /\ Len(response.items) = 2
    /\ response.items[1].name # response.items[2].name
    /\ response.items[1].price # response.items[2].price
    /\ \A i \in DOMAIN request.items : ~Tied(request.items[i])
    /\ \E i \in DOMAIN request.items :
        Cardinality(Offering(ProductOfItem(request.items[i]))) = 2

\* ------------------------------------------------------------------------
\* C10 (as claimed): whatever the order in which the queries return the
\* product, store and price rows of the unchanged catalog, compare_basket
\* returns for the same items and stores the response it served: the same
\* items in the same order with the same store and price, the same
\* storeTotals, overallTotal and unmatched.
\* ------------------------------------------------------------------------
C10_Deterministic ==
    request.served =>
        \A qp \in Orders(products), qs \in Orders(supermarkets) :
            \A qr \in Orders(queried_prices(prices,
                                product_ids_of(request.items, qp),
                                store_ids_of(request.stores, qs))) :
                compare_basket(request.items, request.stores, qp, qs, qr) = response

\* The price rows of one (product, store) pair among the rows queried
RowsOfPair(rows, key) ==
    {r \in rows : r.product_id = key[1] /\ r.store_id = key[2]}

\* ------------------------------------------------------------------------
\* C11: whatever the order in which the price query returns its rows, the
\* prices_map of step 4 has one entry per (product, store) pair queried,
\* holding the least price of the rows of that pair, and the response
\* served is the one computed from it: an assigned item never costs more
\* than the least row of its pair.
\* ------------------------------------------------------------------------
C11_MinOfPriceRows ==
    request.served =>
        LET rows == QueriedNow(request.stores)
        IN  \A qr \in Orders(rows) :
                LET prices_map == build_prices_map(qr, <<>>)
                IN  /\ DOMAIN prices_map = {<<r.product_id, r.store_id>> : r \in rows}
                    /\ \A key \in DOMAIN prices_map :
                        prices_map[key] = MinOf({r.price : r \in RowsOfPair(rows, key)})
                    /\ compare_basket(request.items, request.stores,
                                      all_products, all_stores, qr) = response

\* An item assigned to a store that has two price rows for it, at
\* different prices
C11_Witness ==
    /\ request.served
    /\ \E i \in DOMAIN response.items :
        \E s \in ResolvedStores :
            /\ s.name = response.items[i].store
            /\ Cardinality({r.price : r \in RowsOfPair(prices,
                    <<ProductOfEntry(i).id, s.id>>)}) = 2

\* ------------------------------------------------------------------------
\* Strings of the matcher
\* ------------------------------------------------------------------------

\* sub in text
contains(text, sub) ==
    \E i \in 0..(Len(text) - Len(sub)) : SubSeq(text, i + 1, i + Len(sub)) = sub

\* str.split()
split(s) ==
    LET starts == {i \in DOMAIN s :
                    s[i] \notin Whitespace /\ (i = 1 \/ s[i-1] \in Whitespace)}
        end(i) == MinOf({j \in i..Len(s) : j = Len(s) \/ s[j+1] \in Whitespace})
        nth(k) == CHOOSE i \in starts : Cardinality({j \in starts : j <= i}) = k
    IN  [k \in 1..Cardinality(starts) |-> SubSeq(s, nth(k), end(nth(k)))]

\* " ".join(parts)
RECURSIVE join(_)
join(parts) ==
    IF parts = <<>> THEN <<>>
    ELSE IF Len(parts) = 1 THEN parts[1]
    ELSE parts[1] \o <<" ">> \o join(Tail(parts))

\* str(x or "")
str_or_empty(x) == IF x = Null THEN <<>> ELSE x

\* float(text) of a string: the value of a string of digits, <<>> when the
\* conversion raises
RECURSIVE digits_value(_)
digits_value(s) ==
    IF s = <<>> THEN 0
    ELSE 10 * digits_value(SubSeq(s, 1, Len(s) - 1))
         + (CHOOSE d \in 0..9 : ToString(d) = s[Len(s)])

float(text) ==
    LET stripped == strip(text)
    IN  IF stripped # <<>> /\ \A i \in DOMAIN stripped : stripped[i] \in Digits
        THEN <<digits_value(stripped)>>
        ELSE <<>>

\* ------------------------------------------------------------------------
\* Category rules and ProductSpec (normalization.py)
\* ------------------------------------------------------------------------
milk == <<"m","i","l","k">>

eggs == <<"e","g","g","s">>

leche == <<"l","e","c","h","e">>

chocolate == <<"c","h","o","c","o","l","a","t","e">>

polvo == <<"p","o","l","v","o">>

desnatada == <<"d","e","s","n","a","t","a","d","a">>

\* The category table after _load_category_rules has lower-cased it, in
\* file order
CATEGORY_RULES ==
    << [cat |-> milk,
        base_terms |-> <<leche, milk>>,
        optional_terms |-> <<desnatada>>,
        forbidden_terms |-> <<chocolate, polvo>>],
       [cat |-> eggs,
        base_terms |-> <<<<"h","u","e","v","o","s">>>>,
        optional_terms |-> <<>>,
        forbidden_terms |-> <<chocolate, <<"p","a","s","c","u","a">>>>] >>

\* CATEGORY_RULES.get(cat, {})
rules_of(cat) ==
    LET same == {i \in DOMAIN CATEGORY_RULES : CATEGORY_RULES[i].cat = cat}
    IN  IF same = {} THEN [cat |-> cat, base_terms |-> <<>>, optional_terms |-> <<>>,
                           forbidden_terms |-> <<>>]
        ELSE CATEGORY_RULES[MinOf(same)]

\* matched_rules as the list of its items, in insertion order
_match_category_by_rules(tokens) ==
    LET hits(terms) == SelectSeq(terms, LAMBDA t : t \in Range(tokens))
        matching == SelectSeq(CATEGORY_RULES, LAMBDA rule : hits(rule.base_terms) # <<>>)
    IN  [i \in DOMAIN matching |->
            [cat |-> matching[i].cat,
             matched_base |-> hits(matching[i].base_terms),
             matched_optional |-> hits(matching[i].optional_terms),
             matched_forbidden |-> hits(matching[i].forbidden_terms)]]

build_product_spec(name, brand, category, variants) ==
    LET name_norm == normalize_string(str_or_empty(name))
        variant_tokens ==
            Flatten([i \in DOMAIN variants |-> split(normalize_string(variants[i]))])
        dedup_tokens == dict_keys(split(name_norm) \o variant_tokens)
    IN  [name |-> name,
         tokens |-> dedup_tokens,
         brand |-> IF brand # Null /\ brand # <<>> THEN normalize_string(brand) ELSE Null,
         category |-> category,
         variants |-> [i \in DOMAIN variants |-> normalize_string(variants[i])],
         matched_rules |-> _match_category_by_rules(dedup_tokens)]

\* ------------------------------------------------------------------------
\* The offers and specs the matcher is called with
\* ------------------------------------------------------------------------
MaxOffers == 3

MaxTopK == 2

NoPrice == [kind |-> "None"]

FloatPrice(n) == [kind |-> "float", num |-> n]

StrPrice(text) == [kind |-> "str", text |-> text]

make_offer(name, price, category, description) ==
    [name |-> name, price |-> price, category |-> category, description |-> description]

Leche == <<"L","e","c","h","e">>

Leche_1L == <<"L","e","c","h","e"," ","1","L">>

Leche_con_chocolate_1L == <<"L","e","c","h","e"," ","c","o","n"," ","c","h","o","c","o","l","a","t","e"," ","1","L">>

Leche_Pascual_1L == <<"L","e","c","h","e"," ","P","a","s","c","u","a","l"," ","1","L">>

Leche_desnatada_1L == <<"L","e","c","h","e"," ","d","e","s","n","a","t","a","d","a"," ","1","L">>

Batido_chocolateado == <<"B","a","t","i","d","o"," ","c","h","o","c","o","l","a","t","e","a","d","o">>

Sabor_chocolate == <<"S","a","b","o","r"," ","C","H","O","C","O","L","A","T","E_acute">>

OfferPool ==
    { make_offer(Leche, FloatPrice(1), milk, <<>>),
      make_offer(Leche_1L, FloatPrice(1), milk, <<>>),
      make_offer(Leche_1L, NoPrice, Null, <<>>),
      make_offer(Leche_1L, NoPrice, milk, <<>>),
      make_offer(Leche_1L, FloatPrice(1), Null, Sabor_chocolate),
      make_offer(Leche_con_chocolate_1L, FloatPrice(1), milk, <<>>),
      make_offer(Leche_Pascual_1L, FloatPrice(2), milk, <<>>),
      make_offer(Leche_Pascual_1L, StrPrice(<<"a","b","c">>), milk, <<>>),
      make_offer(Leche_desnatada_1L, StrPrice(<<"2">>), milk, <<>>),
      make_offer(Batido_chocolateado, FloatPrice(1), milk, <<>>) }

\* The arguments of build_product_spec: name, brand, category, variants
SpecArgs ==
    { <<<<"L","e","c","h","e"," ","1","L">>, Null, milk, <<>>>>,
      <<<<"L","e","c","h","e"," ","1","L">>, <<"P","a","s","c","u","a","l">>, milk, <<desnatada>>>>,
      <<<<"A","v","e","n","a">>, Null, Null, <<>>>> }

TopKs == (-1)..MaxTopK

\* normalize_string on the strings in use
normalized_text ==
    [t \in {<<o.name, o.category, o.description>> : o \in OfferPool} |->
        normalize_string(join(<<str_or_empty(t[1]), str_or_empty(t[2]),
                                str_or_empty(t[3])>>))]

\* set(text.split()) of the texts in use
text_words ==
    [t \in {normalized_text[k] : k \in DOMAIN normalized_text} |-> Range(split(t))]

\* build_product_spec on the arguments in use
built_spec ==
    [args \in SpecArgs |-> build_product_spec(args[1], args[2], args[3], args[4])]

normalized_category ==
    [c \in {o.category : o \in OfferPool} |-> normalize_string(str_or_empty(c))]

normalized_term ==
    [t \in UNION {Range(CATEGORY_RULES[i].forbidden_terms) : i \in DOMAIN CATEGORY_RULES} |->
        normalize_string(t)]

\* ------------------------------------------------------------------------
\* scorer.py
\* ------------------------------------------------------------------------
WEIGHTS == [category |-> 40, brand |-> 25, variant |-> 10, token_overlap |-> 1,
            price_bonus |-> 3, irrelevant_penalty |-> -20]

\* Optional[float]: <<>> is None
_safe_price(offer) ==
    IF offer.price.kind = "None" THEN <<>>
    ELSE IF offer.price.kind = "float" THEN <<offer.price.num>>
    ELSE float(offer.price.text)

\* text of hard_filters_fail and score_offer
offer_text(offer) == normalized_text[<<offer.name, offer.category, offer.description>>]

\* The (category, forbidden term) pairs of the matched categories found in
\* the text, as positions in matched_rules and forbidden_terms
forbidden_found(spec_, text) ==
    {p \in UNION {{i} \X DOMAIN rules_of(spec_.matched_rules[i].cat).forbidden_terms :
                    i \in DOMAIN spec_.matched_rules} :
        LET forb == rules_of(spec_.matched_rules[p[1]].cat).forbidden_terms[p[2]]
        IN  forb # <<>> /\ contains(text, normalized_term[forb])}

\* hard_filters_fail looking for the forbidden terms among the words of the
\* text
hard_filters_fail_tokens(spec_, offer) ==
    \E i \in DOMAIN spec_.matched_rules :
        \E forb \in Range(rules_of(spec_.matched_rules[i].cat).forbidden_terms) :
            forb # <<>> /\ normalized_term[forb] \in text_words[offer_text(offer)]

\* hard_filters_fail looking for the forbidden terms in the offer's category
\* alone
hard_filters_fail_category_only(spec_, offer) ==
    forbidden_found(spec_, normalized_category[offer.category]) # {}

hard_filters_fail(spec_, offer) == forbidden_found(spec_, offer_text(offer)) # {}

\* A score is a fraction <<numerator, denominator>>; <<>> is None
score_less(a, b) == a[1] * b[2] < b[1] * a[2]

\* score_offer with the price bonus weighing as much as a brand match
score_offer_price_heavy(spec_, offer, price_rank_score) ==
    IF hard_filters_fail(spec_, offer) THEN <<>>
    ELSE
      LET text == offer_text(offer)
          brand_score ==
            IF spec_.brand # Null /\ spec_.brand # <<>> /\ contains(text, spec_.brand)
            THEN WEIGHTS.brand ELSE 0
          variant_score ==
            WEIGHTS.variant * Cardinality({i \in DOMAIN spec_.variants :
                spec_.variants[i] # <<>> /\ contains(text, spec_.variants[i])})
      IN  <<(brand_score + variant_score) * price_rank_score[2]
                + 2 * WEIGHTS.brand * price_rank_score[1],
            price_rank_score[2]>>

score_offer(spec_, offer, price_rank_score) ==
    IF hard_filters_fail(spec_, offer) THEN <<>>
    ELSE
      LET text == offer_text(offer)
          tokens == Range(spec_.tokens)
          offer_cat == normalized_category[offer.category]
          category_score ==
            IF spec_.matched_rules # <<>>
            THEN IF offer_cat # <<>> /\ contains(offer_cat, spec_.matched_rules[1].cat)
                 THEN WEIGHTS.category
                 ELSE (WEIGHTS.category * 6) \div 10
            ELSE 0
          brand_score ==
            IF spec_.brand # Null /\ spec_.brand # <<>> /\ contains(text, spec_.brand)
            THEN WEIGHTS.brand ELSE 0
          variant_score ==
            WEIGHTS.variant * Cardinality({i \in DOMAIN spec_.variants :
                spec_.variants[i] # <<>> /\ contains(text, spec_.variants[i])})
          overlap == Cardinality(tokens \cap text_words[text])
          penalty == WEIGHTS.irrelevant_penalty * Cardinality(forbidden_found(spec_, text))
          whole == category_score + brand_score + variant_score
                   + overlap * WEIGHTS.token_overlap + penalty
      IN  <<whole * price_rank_score[2] + WEIGHTS.price_bonus * price_rank_score[1],
            price_rank_score[2]>>

\* sorted(seq, key): stable, before(a, b) says a's key is less than b's
sorted(seq, before(_, _)) ==
    LET position(i) ==
            1 + Cardinality({j \in DOMAIN seq :
                    \/ before(seq[j], seq[i])
                    \/ j < i /\ ~before(seq[i], seq[j])})
    IN  [k \in DOMAIN seq |-> seq[CHOOSE i \in DOMAIN seq : position(i) = k]]

\* price_sort_key(a) < price_sort_key(b)
price_sort_key_less(a, b) ==
    /\ a._price # <<>>
    /\ b._price = <<>> \/ a._price[1] < b._price[1]

\* sort_key comparing the scores alone
sort_key_less_score(a, b) == score_less(b[1], a[1])

\* sort_key(a) < sort_key(b) for (score, offer) pairs
sort_key_less(a, b) ==
    \/ score_less(b[1], a[1])
    \/ /\ ~score_less(a[1], b[1])
       /\ price_sort_key_less(a[2], b[2])

\* seq[:k]
slice_to(seq, k) ==
    IF k >= 0 THEN SubSeq(seq, 1, IF k < Len(seq) THEN k ELSE Len(seq))
    ELSE SubSeq(seq, 1, IF Len(seq) + k > 0 THEN Len(seq) + k ELSE 0)

\* filter_and_pick_best returning the first offer given as best
pick_best_last(ranked_) == IF ranked_ # <<>> THEN ranked_[Len(ranked_)] ELSE NoOffer

\* best = ranked[0] if ranked else None
pick_best(ranked_) == IF ranked_ # <<>> THEN ranked_[1] ELSE NoOffer

filter_and_pick_best(spec_, offers_, top_k_) ==
    IF offers_ = <<>> THEN [best |-> NoOffer, ranked |-> <<>>]
    ELSE
      LET normalized_offers ==
            [i \in DOMAIN offers_ |->
                [name |-> offers_[i].name, price |-> offers_[i].price,
                 category |-> offers_[i].category,
                 description |-> offers_[i].description,
                 _orig_index |-> i - 1, _price |-> _safe_price(offers_[i])]]
          filtered == SelectSeq(normalized_offers,
                                LAMBDA o : ~hard_filters_fail(spec_, o))
      IN  IF filtered = <<>> THEN [best |-> NoOffer, ranked |-> <<>>]
          ELSE
            LET offers_with_price == sorted(filtered, price_sort_key_less)
                n == Len(offers_with_price)
                price_rank_map ==
                    [idx \in {offers_with_price[i]._orig_index : i \in 1..n} |->
                        <<n - ((CHOOSE i \in 1..n :
                                    offers_with_price[i]._orig_index = idx) - 1), n>>]
                with_score == [i \in DOMAIN filtered |->
                    <<score_offer(spec_, filtered[i],
                                  price_rank_map[filtered[i]._orig_index]),
                      filtered[i]>>]
                scored == SelectSeq(with_score, LAMBDA t : t[1] # <<>>)
            IN  IF scored = <<>> THEN [best |-> NoOffer, ranked |-> <<>>]
                ELSE
                  LET in_order == sorted(scored, sort_key_less)
                      ranked_ == [i \in DOMAIN in_order |-> in_order[i][2]]
                  IN  [best |-> pick_best(ranked_),
                       ranked |-> slice_to(ranked_, top_k_)]

\* ------------------------------------------------------------------------
\* matcher_service.py
\* ------------------------------------------------------------------------
summarize_spec(spec_) ==
    [name |-> spec_.name, tokens |-> spec_.tokens, brand |-> spec_.brand,
     category |-> spec_.category, variants |-> spec_.variants,
     matched_rules |-> spec_.matched_rules]

\* The offers given have no store and no url; offer.get("_price") or
\* offer.get("price") is the parsed price unless it is None or 0
_clean_offer(offer) ==
    [name |-> offer.name,
     price |-> IF offer._price # <<>> /\ offer._price[1] # 0
               THEN FloatPrice(offer._price[1]) ELSE offer.price,
     store |-> Null,
     category |-> offer.category,
     url |-> Null]

\* ------------------------------------------------------------------------
\* The matcher: match_best_offer is called with a spec that
\* build_product_spec built, a list of offers and top_k, and returns what
\* filter_and_pick_best returns
\* ------------------------------------------------------------------------
InitMatcher ==
    /\ products = SeedProducts
    /\ supermarkets = SeedStores
    /\ prices = {}
    /\ request = NoRequest
    /\ all_products = <<>>
    /\ all_stores = <<>>
    /\ response = NoResponse
    /\ matcher_pc = "called"
    /\ \E args \in SpecArgs : spec = built_spec[args]
    /\ offers \in SeqsUpTo(OfferPool, MaxOffers)
    /\ top_k \in TopKs
    /\ best = NoOffer
    /\ ranked = <<>>
    /\ match_result = NoMatchResult
    /\ manager_idle
    /\ later_idle

match_best_offer ==
    /\ matcher_pc = "called"
    /\ \E result \in {filter_and_pick_best(spec, offers, top_k)} :
           /\ best' = result.best
           /\ ranked' = result.ranked
           /\ match_result' =
                [best_offer |-> IF result.best # NoOffer THEN _clean_offer(result.best)
                                ELSE NoOffer,
                 filtered_offers |-> [i \in DOMAIN result.ranked |->
                                        _clean_offer(result.ranked[i])],
                 spec_summary |-> summarize_spec(spec),
                 offers_scanned |-> Len(offers),
                 offers_passed_filter |-> Len(result.ranked)]
    /\ matcher_pc' = "returned"
    /\ UNCHANGED <<spec, offers, top_k>>
    /\ UNCHANGED compare_vars
    /\ UNCHANGED manager_vars
    /\ UNCHANGED later_vars

NextMatcher == match_best_offer

SpecMatcher == InitMatcher /\ [][NextMatcher]_vars

\* ------------------------------------------------------------------------
\* Vocabulary of the matcher's properties
\* ------------------------------------------------------------------------
Returned == matcher_pc = "returned"

\* The offers of the call as the matcher returns them: with their position
\* and parsed price
Entry(i) ==
    [name |-> offers[i].name, price |-> offers[i].price,
     category |-> offers[i].category, description |-> offers[i].description,
     _orig_index |-> i - 1, _price |-> _safe_price(offers[i])]

\* The forbidden terms of the categories the spec matched
ForbiddenTerms ==
    UNION {Range(rules_of(spec.matched_rules[i].cat).forbidden_terms) :
            i \in DOMAIN spec.matched_rules}

\* The offer's text holds a forbidden term
Forbidden(o) == \E forb \in ForbiddenTerms : contains(offer_text(o), forb)

\* The offers of the call that hold no forbidden term
Survivors == {Entry(i) : i \in {j \in DOMAIN offers : ~Forbidden(offers[j])}}

\* The entry has a price
Priced(e) == e._price # <<>>

\* e comes before f when the survivors are put in price order
CheaperFirst(e, f) ==
    \/ Priced(e) /\ (~Priced(f) \/ e._price[1] < f._price[1])
    \/ /\ Priced(e) = Priced(f)
       /\ Priced(e) => e._price[1] = f._price[1]
       /\ e._orig_index < f._orig_index

\* The score of a survivor, its price bonus being its place from the end
\* of the survivors in price order over their number
ScoreAmong(e, survivors) ==
    score_offer(spec, e,
        <<Cardinality(survivors) - Cardinality({f \in survivors : CheaperFirst(f, e)}),
          Cardinality(survivors)>>)

ScoreOf(e) == ScoreAmong(e, Survivors)

SameScore(e, f) == ~score_less(ScoreOf(e), ScoreOf(f)) /\ ~score_less(ScoreOf(f), ScoreOf(e))

\* The score of every survivor
Scores == LET survivors == Survivors IN [e \in survivors |-> ScoreAmong(e, survivors)]

\* ------------------------------------------------------------------------
\* C12: when the spec matched a category, no offer whose normalized text
\* (name, category, description) holds one of that category's forbidden
\* terms as a substring is returned, as best or in ranked, whatever the
\* offers and top_k.
\* ------------------------------------------------------------------------
C12_HardFilterSound ==
    Returned =>
        /\ \A i \in DOMAIN ranked : ~Forbidden(ranked[i])
        /\ best # NoOffer => ~Forbidden(best)

\* A call whose spec matched milk, with an offer holding "chocolate" inside
\* a longer word or in its description, and an offer returned
C12_Witness ==
    /\ Returned
    /\ ranked # <<>>
    /\ \E i \in DOMAIN spec.matched_rules : spec.matched_rules[i].cat = milk
    /\ \E i \in DOMAIN offers :
        /\ Forbidden(offers[i])
        /\ chocolate \notin text_words[offer_text(offers[i])]

\* ------------------------------------------------------------------------
\* C13: the list returned is in descending order of score, offers of equal
\* score in ascending order of price with the offers that have no price
\* (missing or unparsable) after those that have one; and an offer without
\* a price is not rejected for it: when top_k leaves room for every
\* survivor, every offer holding no forbidden term is returned.
\* ------------------------------------------------------------------------
C13_RankedOrder ==
    Returned =>
      LET scores == Scores IN
        /\ Range(ranked) \subseteq DOMAIN scores
        /\ \A i, j \in DOMAIN ranked :
            i < j =>
                /\ ~score_less(scores[ranked[i]], scores[ranked[j]])
                /\ (~score_less(scores[ranked[j]], scores[ranked[i]]) /\ Priced(ranked[j])) =>
                    /\ Priced(ranked[i])
                    /\ ranked[i]._price[1] <= ranked[j]._price[1]
        /\ top_k >= Cardinality(Survivors) => Range(ranked) = Survivors

\* Two offers of equal score returned, the one without a price given
\* before the one with a price
C13_Witness ==
    /\ Returned
    /\ \E i, j \in DOMAIN ranked :
        /\ i < j
        /\ SameScore(ranked[i], ranked[j])
        /\ Priced(ranked[i])
        /\ ~Priced(ranked[j])
        /\ ranked[j]._orig_index < ranked[i]._orig_index

\* The least of two integers
Min2(a, b) == IF a < b THEN a ELSE b

\* ------------------------------------------------------------------------
\* C14 (amended): filter_and_pick_best returns (None, []) when there is no
\* offer or no offer survives the hard filter; otherwise best is a
\* top-scoring survivor whatever top_k, and for top_k >= 1 ranked holds the
\* min(top_k, number of survivors) highest-ranked survivors, best first.
\* For top_k = 0 ranked is empty although best is an offer, and for
\* top_k < 0 ranked is the ranking without its last -top_k offers.
\* ------------------------------------------------------------------------
C14_BestAndRanked ==
    Returned =>
      LET scores == Scores IN
        IF Survivors = {}
        THEN best = NoOffer /\ ranked = <<>>
        ELSE
            /\ best \in Survivors
            /\ \A f \in Survivors : ~score_less(scores[best], scores[f])
            /\ Range(ranked) \subseteq Survivors
            /\ \A i, j \in DOMAIN ranked : i # j => ranked[i] # ranked[j]
            /\ \A e \in Survivors \ Range(ranked) :
                \A i \in DOMAIN ranked : ~score_less(scores[ranked[i]], scores[e])
            /\ top_k >= 1 =>
                /\ Len(ranked) = Min2(top_k, Cardinality(Survivors))
                /\ best = ranked[1]
            /\ top_k = 0 => ranked = <<>>
            /\ top_k < 0 =>
                Len(ranked) = IF Cardinality(Survivors) + top_k > 0
                              THEN Cardinality(Survivors) + top_k ELSE 0

\* More survivors than top_k >= 1 asks for, an offer rejected, and the best
\* offer not the first one given
C14_Witness ==
    /\ Returned
    /\ top_k >= 1
    /\ Cardinality(Survivors) > top_k
    /\ Cardinality(Survivors) < Len(offers)
    /\ best # NoOffer
    /\ best._orig_index > 0

\* C14 (as claimed): with survivors, ranked holds min(top_k, number of
\* survivors) offers and best is its first element, for every top_k.
C14_BestIsFirstOfRanked ==
    (Returned /\ Survivors # {}) =>
        /\ Len(ranked) = Min2(top_k, Cardinality(Survivors))
        /\ ranked # <<>>
        /\ best = ranked[1]

\* The offer's text holds the brand the spec asks for
BrandHit(e) ==
    /\ spec.brand # Null
    /\ spec.brand # <<>>
    /\ contains(offer_text(e), spec.brand)

\* The variants of the spec the offer's text holds
VariantHits(e) ==
    {i \in DOMAIN spec.variants :
        spec.variants[i] # <<>> /\ contains(offer_text(e), spec.variants[i])}

\* The words of the spec's brand and variants
BrandVariantWords ==
    (IF spec.brand = Null THEN {} ELSE Range(split(spec.brand)))
        \cup UNION {Range(split(spec.variants[i])) : i \in DOMAIN spec.variants}

\* a and b are alike but for the brand or variants a's text holds and b's
\* lacks, and for their prices
BrandOrVariantApart(a, b) ==
    /\ a.category = b.category
    /\ a.description = b.description
    /\ text_words[offer_text(b)] \subseteq text_words[offer_text(a)]
    /\ text_words[offer_text(a)] \ text_words[offer_text(b)] \subseteq BrandVariantWords
    /\ BrandHit(b) => BrandHit(a)
    /\ VariantHits(b) \subseteq VariantHits(a)
    /\ \/ BrandHit(a) /\ ~BrandHit(b)
       \/ VariantHits(a) # VariantHits(b)

\* The place of an entry in ranked, 0 when it is not there
PlaceOf(e) ==
    IF e \in Range(ranked) THEN CHOOSE i \in DOMAIN ranked : ranked[i] = e ELSE 0

\* ------------------------------------------------------------------------
\* C15: of two offers that survive the hard filter and differ only in that
\* the text of one holds spec.brand (or more of spec.variants) and in
\* their prices, the one with the brand or variant is ranked above the
\* other whatever the two prices and however many offers are given: when
\* the other is in ranked, it is there too, at an earlier place.
\* ------------------------------------------------------------------------
C15_PriceNeverDominates ==
    Returned =>
        \A a, b \in Survivors :
            (BrandOrVariantApart(a, b) /\ b \in Range(ranked)) =>
                /\ a \in Range(ranked)
                /\ PlaceOf(a) < PlaceOf(b)

\* A brand or variant offer ranked above its cheaper twin: the twin is the
\* cheapest offer of the call, the ranked-above one dearer or without a price
C15_Witness ==
    /\ Returned
    /\ Len(offers) = MaxOffers
    /\ \E i, j \in DOMAIN ranked :
        /\ i < j
        /\ BrandOrVariantApart(ranked[i], ranked[j])
        /\ Priced(ranked[j])
        /\ ~Priced(ranked[i]) \/ ranked[i]._price[1] > ranked[j]._price[1]

\* The offers the call returned, as best or in ranked
ReturnedOffers == Range(ranked) \cup (IF best # NoOffer THEN {best} ELSE {})

\* The forbidden-term penalty score_offer adds to the score of the offer
PenaltyOf(e) ==
    WEIGHTS.irrelevant_penalty * Cardinality(forbidden_found(spec, offer_text(e)))

\* ------------------------------------------------------------------------
\* C28: every offer that filter_and_pick_best returns, as best or in
\* ranked, has a score of 0 or more, and the forbidden-term penalty of
\* score_offer is nil for it: an offer that passed hard_filters_fail holds
\* no forbidden term of a matched category in its normalized text.
\* ------------------------------------------------------------------------
C28_ScoreNonNegative ==
    Returned =>
        LET scores == Scores
        IN  \A e \in ReturnedOffers :
                /\ PenaltyOf(e) = 0
                /\ e \in DOMAIN scores
                /\ scores[e] # <<>>
                /\ scores[e][2] > 0
                /\ scores[e][1] >= 0

\* A call whose spec matched a category, where an offer holding a forbidden
\* term of it was rejected and every other offer given is returned with its
\* score
C28_Witness ==
    /\ Returned
    /\ spec.matched_rules # <<>>
    /\ \E i \in DOMAIN offers : forbidden_found(spec, offer_text(offers[i])) # {}
    /\ Len(ranked) = Len(offers) - 1
    /\ Len(ranked) >= 2
    /\ \A e \in ReturnedOffers : ScoreOf(e)[1] > 0

\* ------------------------------------------------------------------------
\* C29: in the MatchResult that match_best_offer returns, offers_scanned is
\* the number of offers given and offers_passed_filter is the number of
\* offers given that the hard filters did not reject, whatever the offers
\* and top_k.
\* ------------------------------------------------------------------------
C29_MatchResultCounts ==
    Returned =>
        /\ match_result.offers_scanned = Len(offers)
        /\ match_result.offers_passed_filter =
                Cardinality({i \in DOMAIN offers : ~Forbidden(offers[i])})

\* ------------------------------------------------------------------------
\* scrapers/base.py
\* ------------------------------------------------------------------------

\* Store names, as registered and as callers write them
carrefour == <<"c","a","r","r","e","f","o","u","r">>

alcampo == <<"a","l","c","a","m","p","o">>

lidl == <<"l","i","d","l">>

dia == <<"d","i","a">>

gadis == <<"g","a","d","i","s">>

mercadona == <<"m","e","r","c","a","d","o","n","a">>

ALCAMPO == <<"A","L","C","A","M","P","O">>

\* What a call does: return a list, raise an exception with a message, or
\* never return
Returns(offers_) == [kind |-> "returns", offers |-> offers_]

Raises(message) == [kind |-> "raises", error |-> message]

Hangs == [kind |-> "hangs"]

\* Exception("Test error") and Exception(): str(e) is the message
Test_error == <<"T","e","s","t"," ","e","r","r","o","r">>

\* Offer(store, name, price, normalized_name)
Offer(store_, name, price, normalized_name) ==
    [store |-> store_, name |-> name, price |-> price, normalized_name |-> normalized_name]

\* normalize_text: NFD, drop the combining marks, lower, collapse, strip
normalize_text(text) ==
    IF text = <<>> THEN <<>>
    ELSE LET nfd == Flatten([i \in DOMAIN text |-> NFKD(text[i])])
             normalized == SelectSeq(nfd, LAMBDA c : ~combining(c))
         IN  strip(collapse_whitespace(lower_str(normalized)))

\* BaseScraper.search over what _fetch_products does: the offers with
\* normalized_name filled in, [] when _fetch_products raises
search(fetch_products) ==
    IF fetch_products.kind = "returns"
    THEN Returns([i \in DOMAIN fetch_products.offers |->
            LET offer == fetch_products.offers[i]
            IN  IF offer.normalized_name = Null \/ offer.normalized_name = <<>>
                THEN [offer EXCEPT !.normalized_name = normalize_text(offer.name)]
                ELSE offer])
    ELSE IF fetch_products.kind = "raises"
    THEN Returns(<<>>)
    ELSE Hangs

\* ScraperFactory._scrapers: the keys in the order the scraper modules
\* register (store_name.lower())
_scrapers == <<lower_str(carrefour), lower_str(alcampo), lower_str(lidl),
               lower_str(dia), lower_str(gadis)>>

\* ScraperFactory.get_available_stores()
get_available_stores == _scrapers

\* The offers the stores' _fetch_products find
Leche_Entera == <<"L","e","c","h","e"," ","E","n","t","e","r","a">>

Pan_de_Molde == <<"P","a","n"," "," ","d","e"," ","M","o","l","d","e">>

\* STORE_NAME of the scraper registered under a key
STORE_NAME(store_) ==
    IF store_ = carrefour THEN "Carrefour"
    ELSE IF store_ = alcampo THEN "Alcampo"
    ELSE IF store_ = lidl THEN "Lidl"
    ELSE IF store_ = dia THEN "Dia"
    ELSE IF store_ = gadis THEN "Gadis"
    ELSE "Mercadona"

FetchedOffers(store_) ==
    IF store_ = carrefour
    THEN <<Offer(STORE_NAME(store_), Leche_Entera, 1, Null),
           Offer(STORE_NAME(store_), Pan_de_Molde, 2, Null)>>
    ELSE IF store_ = alcampo
    THEN <<Offer(STORE_NAME(store_), Leche_Entera, 1, normalize_text(Leche_Entera))>>
    ELSE IF store_ = lidl
    THEN <<>>
    ELSE IF store_ = dia
    THEN <<Offer(STORE_NAME(store_), Leche_Entera, 2, <<>>)>>
    ELSE IF store_ = gadis
    THEN <<Offer(STORE_NAME(store_), Leche_Entera, 1, Null),
           Offer(STORE_NAME(store_), Leche_Entera, 1, Null)>>
    ELSE <<Offer(STORE_NAME(store_), Leche_Entera, 1, Null)>>

\* ------------------------------------------------------------------------
\* scrapers/manager.py
\* ------------------------------------------------------------------------

\* The most stores a caller names
MaxRequested == 2

\* The most max_workers a caller passes
MaxWorkers == 2

\* The most sources that go wrong at a time
MaxFailing == 1

\* stores=None
NoStores == <<Null>>

\* The names callers pass
RequestedNames == {carrefour, ALCAMPO, mercadona}

\* The stores arguments
StoresArgs == {NoStores} \cup SeqsUpTo(RequestedNames, MaxRequested)

\* The ways a source goes wrong: its search raises (search patched with
\* side_effect=Exception(...)), its _fetch_products raises, or never returns
Failures == {"search raises", "search raises without message", "fetch raises", "hangs"}

\* What _fetch_products does in the runs explored
FetchOutcomes ==
    {Returns(FetchedOffers(s)) : s \in Range(_scrapers)} \cup {Raises(Test_error), Hangs}

\* BaseScraper.search on each of them
searches == [fetch_products \in FetchOutcomes |-> search(fetch_products)]

\* scraper.search(query) as the manager sees it
scraper_search(store_) ==
    IF side_effect[store_] # Null
    THEN Raises(side_effect[store_])
    ELSE searches[fetched[store_]]

\* if stores: neither None nor the empty list
given(stores_) == stores_ # NoStores /\ stores_ # <<>>

\* if error: neither None nor the empty string
truthy(error) == error # Null /\ error # <<>>

\* self.scrapers when the names are compared as they are written
init_case_sensitive(stores_) ==
    LET available_stores == get_available_stores
        self_stores ==
            IF given(stores_)
            THEN SelectSeq(stores_, LAMBDA s : s \in Range(available_stores))
            ELSE available_stores
    IN  dict_keys(self_stores)

\* ScraperManager.__init__: self.scrapers
__init__(stores_) ==
    LET available_stores == get_available_stores
        self_stores ==
            IF given(stores_)
            THEN SelectSeq([i \in DOMAIN stores_ |-> lower_str(stores_[i])],
                           LAMBDA s : s \in Range(available_stores))
            ELSE available_stores
    IN  dict_keys(self_stores)

\* The query of the calls
leche_query == <<"l","e","c","h","e">>

\* The queries given to the legacy manager
Queries == {leche_query, <<>>, <<" ">>}

\* SCRAPERS of the legacy manager: its keys in order
SCRAPERS == <<mercadona, carrefour, alcampo, dia, gadis, lidl>>

\* The sources that go wrong, each with the way it does
FailurePatterns ==
    UNION {[F -> Failures] :
            F \in {G \in SUBSET Range(SCRAPERS) : Cardinality(G) <= MaxFailing}}

Call(name, max_workers, store_, query) ==
    [name |-> name, max_workers |-> max_workers, store |-> store_, query |-> query]

Returned_(offers_) == [kind |-> "returned", offers |-> offers_]

Raised(message) == [kind |-> "raised", error |-> message]

InitManager ==
    /\ products = SeedProducts
    /\ supermarkets = SeedStores
    /\ prices = {}
    /\ request = NoRequest
    /\ all_products = <<>>
    /\ all_stores = <<>>
    /\ response = NoResponse
    /\ matcher_idle
    /\ manager_pc = "new"
    /\ \E failing \in FailurePatterns :
        LET failure(s) == IF s \in DOMAIN failing THEN failing[s] ELSE "none"
        IN  /\ side_effect =
                [s \in Range(_scrapers) |->
                    IF failure(s) = "search raises" THEN Test_error
                    ELSE IF failure(s) = "search raises without message" THEN <<>>
                    ELSE Null]
            /\ fetched =
                [s \in Range(_scrapers) |->
                    IF failure(s) = "fetch raises" THEN Raises(Test_error)
                    ELSE IF failure(s) = "hangs" THEN Hangs
                    ELSE Returns(FetchedOffers(s))]
            /\ scraped =
                [s \in Range(SCRAPERS) |->
                    IF failure(s) = "search raises" THEN Raises(Test_error)
                    ELSE IF failure(s) = "search raises without message" THEN Raises(<<>>)
                    ELSE IF failure(s) = "fetch raises" THEN Returns(<<>>)
                    ELSE IF failure(s) = "hangs" THEN Hangs
                    ELSE Returns(FetchedOffers(s))]
    /\ stores_arg \in StoresArgs
    /\ scrapers = <<>>
    /\ method = NoMethod
    /\ searched = <<>>
    /\ loop_index = 0
    /\ all_offers = <<>>
    /\ futures = <<>>
    /\ yielded = {}
    /\ call_result = NoResult
    /\ later_idle

\* What the source set-up and the manager keep for life
manager_fixed == <<side_effect, fetched, scraped, stores_arg>>

\* A manager exists and no call is under way
callable == manager_pc \in {"ready", "returned", "raised"}

\* A call starts: its locals are fresh
start_call(call) ==
    /\ method' = call
    /\ manager_pc' = call.name
    /\ searched' = <<>>
    /\ loop_index' = 0
    /\ all_offers' = <<>>
    /\ futures' = <<>>
    /\ yielded' = {}
    /\ call_result' = NoResult

\* manager = ScraperManager(stores)
ScraperManager ==
    /\ manager_pc = "new"
    /\ scrapers' = __init__(stores_arg)
    /\ manager_pc' = "ready"
    /\ UNCHANGED <<method, searched, loop_index, all_offers, futures, yielded, call_result>>
    /\ UNCHANGED manager_fixed
    /\ UNCHANGED <<compare_vars, matcher_vars, later_vars>>

\* manager.get_offers(query) is called
get_offers ==
    /\ callable
    /\ start_call(Call("get_offers", 0, <<>>, leche_query))
    /\ UNCHANGED <<scrapers, manager_fixed, compare_vars, matcher_vars, later_vars>>

\* The turn of the loop without its try/except: the exception of a search
\* ends the call
get_offers_search_unguarded ==
    /\ manager_pc = "get_offers"
    /\ loop_index < Len(scrapers)
    /\ LET store_name == scrapers[loop_index + 1]
           found == scraper_search(store_name)
       IN  /\ found.kind # "hangs"
           /\ searched' = Append(searched, store_name)
           /\ all_offers' = IF found.kind = "returns"
                            THEN all_offers \o found.offers
                            ELSE all_offers
           /\ call_result' = IF found.kind = "returns" THEN call_result
                             ELSE Raised(found.error)
           /\ manager_pc' = IF found.kind = "returns" THEN manager_pc ELSE "raised"
    /\ loop_index' = loop_index + 1
    /\ UNCHANGED <<method, futures, yielded>>
    /\ UNCHANGED <<scrapers, manager_fixed, compare_vars, matcher_vars, later_vars>>

\* One turn of the loop over self.scrapers.items(): the search of the next
\* store returns or raises
get_offers_search ==
    /\ manager_pc = "get_offers"
    /\ loop_index < Len(scrapers)
    /\ LET store_name == scrapers[loop_index + 1]
           found == scraper_search(store_name)
       IN  /\ found.kind # "hangs"
           /\ searched' = Append(searched, store_name)
           /\ all_offers' = IF found.kind = "returns"
                            THEN all_offers \o found.offers
                            ELSE all_offers
    /\ loop_index' = loop_index + 1
    /\ UNCHANGED <<manager_pc, method, futures, yielded, call_result>>
    /\ UNCHANGED <<scrapers, manager_fixed, compare_vars, matcher_vars, later_vars>>

\* The loop is over: return all_offers
get_offers_return ==
    /\ manager_pc = "get_offers"
    /\ loop_index = Len(scrapers)
    /\ call_result' = Returned_(all_offers)
    /\ manager_pc' = "returned"
    /\ UNCHANGED <<method, searched, loop_index, all_offers, futures, yielded>>
    /\ UNCHANGED <<scrapers, manager_fixed, compare_vars, matcher_vars, later_vars>>

\* manager.get_offers_parallel(query, max_workers) is called
get_offers_parallel(max_workers) ==
    /\ callable
    /\ start_call(Call("get_offers_parallel", max_workers, <<>>, leche_query))
    /\ UNCHANGED <<scrapers, manager_fixed, compare_vars, matcher_vars, later_vars>>

Pending == [state |-> "pending"]

Running == [state |-> "running"]

Done(value) == [state |-> "done", value |-> value]

\* executor.submit(search_store, name, scraper) for the next scraper
submit ==
    /\ manager_pc = "get_offers_parallel"
    /\ Len(futures) < Len(scrapers)
    /\ futures' = Append(futures, Pending)
    /\ UNCHANGED <<manager_pc, method, searched, loop_index, all_offers, yielded, call_result>>
    /\ UNCHANGED <<scrapers, manager_fixed, compare_vars, matcher_vars, later_vars>>

\* A worker thread of the pool, of which there are max_workers, takes the
\* oldest work item and calls search_store, which calls the search
worker_run ==
    /\ manager_pc = "get_offers_parallel"
    /\ Cardinality({i \in DOMAIN futures : futures[i] = Running}) < method.max_workers
    /\ \E i \in DOMAIN futures :
        /\ futures[i] = Pending
        /\ \A j \in 1..(i - 1) : futures[j] # Pending
        /\ futures' = [futures EXCEPT ![i] = Running]
        /\ searched' = Append(searched, scrapers[i])
    /\ UNCHANGED <<manager_pc, method, loop_index, all_offers, yielded, call_result>>
    /\ UNCHANGED <<scrapers, manager_fixed, compare_vars, matcher_vars, later_vars>>

\* search_store returns in its thread: (store_name, offers, None), or
\* (store_name, [], str(e)) when the search raised
search_store ==
    /\ manager_pc = "get_offers_parallel"
    /\ \E i \in DOMAIN futures :
        /\ futures[i] = Running
        /\ LET store_name == scrapers[i]
               found == scraper_search(store_name)
           IN  /\ found.kind # "hangs"
               /\ futures' = [futures EXCEPT ![i] =
                    IF found.kind = "returns"
                    THEN Done([store_name |-> store_name, offers |-> found.offers,
                               error |-> Null])
                    ELSE Done([store_name |-> store_name, offers |-> <<>>,
                               error |-> found.error])]
    /\ UNCHANGED <<manager_pc, method, searched, loop_index, all_offers, yielded, call_result>>
    /\ UNCHANGED <<scrapers, manager_fixed, compare_vars, matcher_vars, later_vars>>

\* One turn of the loop over as_completed(futures), which starts when all
\* are submitted: a finished future is yielded and its result merged
as_completed ==
    /\ manager_pc = "get_offers_parallel"
    /\ Len(futures) = Len(scrapers)
    /\ \E i \in DOMAIN futures \ yielded :
        /\ futures[i].state = "done"
        /\ all_offers' = IF truthy(futures[i].value.error)
                         THEN all_offers
                         ELSE all_offers \o futures[i].value.offers
        /\ yielded' = yielded \cup {i}
    /\ UNCHANGED <<manager_pc, method, searched, loop_index, futures, call_result>>
    /\ UNCHANGED <<scrapers, manager_fixed, compare_vars, matcher_vars, later_vars>>

\* all_offers returned once everything is submitted, without waiting for
\* the futures
get_offers_parallel_return_early ==
    /\ manager_pc = "get_offers_parallel"
    /\ Len(futures) = Len(scrapers)
    /\ call_result' = Returned_(all_offers)
    /\ manager_pc' = "returned"
    /\ UNCHANGED <<method, searched, loop_index, all_offers, futures, yielded>>
    /\ UNCHANGED <<scrapers, manager_fixed, compare_vars, matcher_vars, later_vars>>

\* Every future was yielded: the executor shuts down and all_offers is
\* returned
get_offers_parallel_return ==
    /\ manager_pc = "get_offers_parallel"
    /\ Len(futures) = Len(scrapers)
    /\ yielded = DOMAIN futures
    /\ call_result' = Returned_(all_offers)
    /\ manager_pc' = "returned"
    /\ UNCHANGED <<method, searched, loop_index, all_offers, futures, yielded>>
    /\ UNCHANGED <<scrapers, manager_fixed, compare_vars, matcher_vars, later_vars>>

\* manager.get_offers_by_store(query, store) is called
get_offers_by_store(store_) ==
    /\ callable
    /\ start_call(Call("get_offers_by_store", 0, store_, leche_query))
    /\ UNCHANGED <<scrapers, manager_fixed, compare_vars, matcher_vars, later_vars>>

\* get_offers_by_store ends: [] for a store it has no scraper for, else
\* whatever the scraper's search does
get_offers_by_store_return ==
    /\ manager_pc = "get_offers_by_store"
    /\ LET store_lower == lower_str(method.store)
       IN  IF store_lower \notin Range(scrapers)
           THEN /\ call_result' = Returned_(<<>>)
                /\ manager_pc' = "returned"
                /\ UNCHANGED searched
           ELSE LET found == scraper_search(store_lower)
                IN  /\ found.kind # "hangs"
                    /\ searched' = Append(searched, store_lower)
                    /\ call_result' = IF found.kind = "returns"
                                      THEN Returned_(found.offers)
                                      ELSE Raised(found.error)
                    /\ manager_pc' = IF found.kind = "returns" THEN "returned" ELSE "raised"
    /\ UNCHANGED <<method, loop_index, all_offers, futures, yielded>>
    /\ UNCHANGED <<scrapers, manager_fixed, compare_vars, matcher_vars, later_vars>>

\* ------------------------------------------------------------------------
\* api/scrapers/manager.py (the legacy manager)
\* ------------------------------------------------------------------------

\* The stores the legacy get_offers queries: the known ones of stores
legacy_queried(stores_) ==
    SelectSeq(IF stores_ = NoStores THEN SCRAPERS ELSE stores_,
              LAMBDA s : s \in Range(SCRAPERS))

\* ScraperManager.get_offers(query, stores) of the legacy manager, the
\* whole call
legacy_get_offers(query) ==
    /\ callable
    /\ LET queried == IF query = <<>> \/ strip(query) = <<>>
                      THEN <<>>
                      ELSE legacy_queried(stores_arg)
           offers_of(s) == IF scraped[s].kind = "returns" THEN scraped[s].offers ELSE <<>>
       IN  /\ \A i \in DOMAIN queried : scraped[queried[i]].kind # "hangs"
           /\ method' = Call("legacy_get_offers", 0, <<>>, query)
           /\ searched' = queried
           /\ all_offers' = Flatten([i \in DOMAIN queried |-> offers_of(queried[i])])
           /\ call_result' = Returned_(all_offers')
           /\ manager_pc' = "returned"
    /\ loop_index' = 0
    /\ futures' = <<>>
    /\ yielded' = {}
    /\ UNCHANGED <<scrapers, manager_fixed, compare_vars, matcher_vars, later_vars>>

NextManager ==
    \/ ScraperManager
    \/ get_offers
    \/ get_offers_search
    \/ get_offers_return
    \/ \E max_workers \in 1..MaxWorkers : get_offers_parallel(max_workers)
    \/ submit
    \/ worker_run
    \/ search_store
    \/ as_completed
    \/ get_offers_parallel_return
    \/ \E store_ \in RequestedNames : get_offers_by_store(store_)
    \/ get_offers_by_store_return
    \/ \E query \in Queries : legacy_get_offers(query)

SpecManager == InitManager /\ [][NextManager]_vars

\* ------------------------------------------------------------------------
\* Properties of the scraper manager
\* ------------------------------------------------------------------------

\* The call named has ended
Ended(names) == manager_pc \in {"returned", "raised"} /\ method.name \in names

\* The scrapers whose search raises
RaisingSources == {s \in Range(scrapers) : scraper_search(s).kind = "raises"}

\* What the search of a source returns, nothing when it raises
SourceOffers(s) ==
    IF scraper_search(s).kind = "returns" THEN scraper_search(s).offers ELSE <<>>

\* The offers of the sources that return, source by source
UnionOfOffers == Flatten([i \in DOMAIN scrapers |-> SourceOffers(scrapers[i])])

\* The two sequences hold the same elements the same number of times
SameMultiset(a, b) == \A x \in Range(a) \cup Range(b) : Count(a, x) = Count(b, x)

\* ------------------------------------------------------------------------
\* C16: when the search of a registered source raises, get_offers and
\* get_offers_parallel do not raise, call the search of every scraper of
\* the manager once, and return exactly the offers the other sources
\* returned, unchanged: get_offers in the order of the sources,
\* get_offers_parallel the same offers the same number of times.
\* ------------------------------------------------------------------------
C16_AggregationIsolation ==
    Ended({"get_offers", "get_offers_parallel"}) =>
        /\ call_result.kind = "returned"
        /\ SameMultiset(searched, scrapers)
        /\ SameMultiset(call_result.offers, UnionOfOffers)
        /\ method.name = "get_offers" => call_result.offers = UnionOfOffers

\* get_offers returned offers of sources called before and after the one
\* whose search raised
C16_Witness ==
    /\ Ended({"get_offers"})
    /\ call_result.kind = "returned"
    /\ \E i, j, k \in DOMAIN scrapers :
        /\ i < j
        /\ j < k
        /\ RaisingSources = {scrapers[j]}
        /\ SourceOffers(scrapers[i]) # <<>>
        /\ SourceOffers(scrapers[k]) # <<>>
        /\ Range(SourceOffers(scrapers[i])) \subseteq Range(call_result.offers)
        /\ Range(SourceOffers(scrapers[k])) \subseteq Range(call_result.offers)

\* ------------------------------------------------------------------------
\* C17: no entry point of the manager lets the exception of a source's
\* search reach its caller: get_offers, get_offers_parallel and
\* get_offers_by_store(query, store) all return, and a source whose search
\* raised counts as having returned no offers.
\* ------------------------------------------------------------------------
C17_FailureNeverPropagates ==
    Ended({"get_offers", "get_offers_parallel", "get_offers_by_store"}) =>
        /\ manager_pc = "returned"
        /\ call_result.kind = "returned"
        /\ method.name = "get_offers_by_store" =>
            call_result.offers =
                IF lower_str(method.store) \in Range(scrapers)
                THEN SourceOffers(lower_str(method.store))
                ELSE <<>>

\* The manager with its threads scheduled: the main thread and the worker
\* threads of the pool each take their next step when they have one; a
\* search that never returns has none
SpecManagerFair == SpecManager /\ WF_vars(NextManager)

\* A call of get_offers or get_offers_parallel is under way
Aggregating == manager_pc \in {"get_offers", "get_offers_parallel"}

\* The scrapers whose search never returns
HangingSources == {s \in Range(scrapers) : scraper_search(s).kind = "hangs"}

\* ------------------------------------------------------------------------
\* C18: a call of get_offers or get_offers_parallel eventually returns,
\* also when the search of a source never returns: that source counts as
\* having returned no offers and the offers of every source that completed
\* are in the list returned.
\* ------------------------------------------------------------------------
C18_EventuallyReturns ==
    Aggregating ~>
        (manager_pc = "returned" /\ SameMultiset(call_result.offers, UnionOfOffers))

\* A call with no source that hangs eventually returns the offers of the
\* sources that completed
C18_ReturnsWhenAllComplete ==
    (Aggregating /\ HangingSources = {}) ~>
        (manager_pc = "returned" /\ SameMultiset(call_result.offers, UnionOfOffers))

\* The offers of the futures as_completed has yielded
YieldedOffers ==
    Flatten([i \in DOMAIN scrapers |->
        IF i \in yielded THEN SourceOffers(scrapers[i]) ELSE <<>>])

\* ------------------------------------------------------------------------
\* C19: in get_offers_parallel, whatever the interleaving and the order in
\* which the searches complete and whatever max_workers >= 1, all_offers
\* holds at any moment exactly the offers of the futures yielded so far,
\* each once, never more than max_workers searches run at a time, and the
\* call returns only when the search of every scraper has returned or
\* raised, with the offers of each source that returned exactly once: the
\* same offers, as many times, as get_offers returns.
\* ------------------------------------------------------------------------
C19_NoPartialMerge ==
    /\ manager_pc = "get_offers_parallel" =>
        /\ SameMultiset(all_offers, YieldedOffers)
        /\ \A i \in yielded : futures[i].state = "done"
        /\ Cardinality({i \in DOMAIN futures : futures[i] = Running}) <= method.max_workers
    /\ Ended({"get_offers_parallel"}) =>
        /\ call_result.kind = "returned"
        /\ DOMAIN futures = DOMAIN scrapers
        /\ \A i \in DOMAIN futures : futures[i].state = "done"
        /\ SameMultiset(call_result.offers, UnionOfOffers)

\* get_offers_parallel returned the offers of four sources in another
\* order than get_offers does, the search of one more source having raised
C19_Witness ==
    /\ Ended({"get_offers_parallel"})
    /\ call_result.kind = "returned"
    /\ Len(scrapers) = 5
    /\ Cardinality(RaisingSources) = 1
    /\ call_result.offers # UnionOfOffers
    /\ call_result.offers # <<>>

\* The manager has been built
Built == manager_pc \notin {"idle", "new"}

\* The names asked for, in lower case
RequestedLower == {lower_str(stores_arg[i]) : i \in DOMAIN stores_arg}

\* The stores the offers returned are of
StoresOfOffers == {call_result.offers[i].store : i \in DOMAIN call_result.offers}

\* ------------------------------------------------------------------------
\* C20 (amended): a ScraperManager built with a non-empty list of store
\* names has a scraper for exactly the names of the list that are
\* registered, compared in lower case, and get_offers and
\* get_offers_parallel call the search of those scrapers and no other, so
\* the offers are of those stores only; names that are not registered are
\* dropped without an error. An empty list is treated as None: every
\* registered store is used. The legacy get_offers(query, stores) with a
\* list and a query that is not blank calls exactly the scrapers of the
\* names of the list that are keys of SCRAPERS as written, and returns;
\* with a blank query it calls none.
\* ------------------------------------------------------------------------
C20_UnknownNamesIgnored ==
    /\ Built =>
        /\ given(stores_arg) => Range(scrapers) = RequestedLower \cap Range(_scrapers)
        /\ ~given(stores_arg) => scrapers = _scrapers
    /\ Ended({"get_offers", "get_offers_parallel"}) =>
        /\ Range(searched) = Range(scrapers)
        /\ call_result.kind = "returned"
        /\ StoresOfOffers \subseteq {STORE_NAME(s) : s \in Range(scrapers)}
    /\ (Ended({"legacy_get_offers"}) /\ stores_arg # NoStores) =>
        /\ call_result.kind = "returned"
        /\ Range(searched) =
            IF strip(method.query) = <<>> THEN {}
            ELSE Range(stores_arg) \cap Range(SCRAPERS)

\* get_offers of a manager built with an unregistered name and a
\* registered one written in capitals returned offers of that store
C20_Witness ==
    /\ Ended({"get_offers"})
    /\ \E i, j \in DOMAIN stores_arg :
        /\ lower_str(stores_arg[i]) \notin Range(_scrapers)
        /\ stores_arg[j] \notin Range(_scrapers)
        /\ lower_str(stores_arg[j]) \in Range(_scrapers)
        /\ searched = <<lower_str(stores_arg[j])>>
    /\ call_result.kind = "returned"
    /\ call_result.offers # <<>>

\* C20 (as claimed): a ScraperManager built with a list of store names has
\* a scraper for exactly the names of the list that are registered, and
\* the legacy get_offers(query, stores) calls the scrapers of the known
\* names of its list.
C20_ExactlyTheRequested ==
    /\ (Built /\ stores_arg # NoStores) =>
        Range(scrapers) = RequestedLower \cap Range(_scrapers)
    /\ (Ended({"legacy_get_offers"}) /\ stores_arg # NoStores) =>
        Range(searched) = Range(stores_arg) \cap Range(SCRAPERS)

\* ------------------------------------------------------------------------
\* The normalization functions on their own
\* ------------------------------------------------------------------------

\* The rest of the program while one of its pure parts is exercised
compare_rest ==
    /\ products = SeedProducts
    /\ supermarkets = SeedStores
    /\ prices = {}
    /\ request = NoRequest
    /\ all_products = <<>>
    /\ all_stores = <<>>
    /\ response = NoResponse

\* The rest of the program while one of these parts is exercised on its own
outside_normalize ==
    <<compare_vars, matcher_vars, manager_vars,
      build_vars,
      refresh_vars,
      scrape_vars,
      scheduler_vars,
      matching_vars>>

only_normalize ==
    /\ compare_rest
    /\ matcher_idle
    /\ manager_idle
    /\ build_idle
    /\ refresh_idle
    /\ scrape_idle
    /\ scheduler_idle
    /\ matching_idle

outside_build ==
    <<compare_vars, matcher_vars, manager_vars,
      normalize_vars,
      refresh_vars,
      scrape_vars,
      scheduler_vars,
      matching_vars>>

only_build ==
    /\ compare_rest
    /\ matcher_idle
    /\ manager_idle
    /\ normalize_idle
    /\ refresh_idle
    /\ scrape_idle
    /\ scheduler_idle
    /\ matching_idle

outside_refresh ==
    <<compare_vars, matcher_vars, manager_vars,
      normalize_vars,
      build_vars,
      scrape_vars,
      scheduler_vars,
      matching_vars>>

only_refresh ==
    /\ compare_rest
    /\ matcher_idle
    /\ manager_idle
    /\ normalize_idle
    /\ build_idle
    /\ scrape_idle
    /\ scheduler_idle
    /\ matching_idle

outside_scrape ==
    <<compare_vars, matcher_vars, manager_vars,
      normalize_vars,
      build_vars,
      refresh_vars,
      scheduler_vars,
      matching_vars>>

only_scrape ==
    /\ compare_rest
    /\ matcher_idle
    /\ manager_idle
    /\ normalize_idle
    /\ build_idle
    /\ refresh_idle
    /\ scheduler_idle
    /\ matching_idle

outside_scheduler ==
    <<compare_vars, matcher_vars, manager_vars,
      normalize_vars,
      build_vars,
      refresh_vars,
      scrape_vars,
      matching_vars>>

only_scheduler ==
    /\ compare_rest
    /\ matcher_idle
    /\ manager_idle
    /\ normalize_idle
    /\ build_idle
    /\ refresh_idle
    /\ scrape_idle
    /\ matching_idle

outside_matching ==
    <<compare_vars, matcher_vars, manager_vars,
      normalize_vars,
      build_vars,
      refresh_vars,
      scrape_vars,
      scheduler_vars>>

only_matching ==
    /\ compare_rest
    /\ matcher_idle
    /\ manager_idle
    /\ normalize_idle
    /\ build_idle
    /\ refresh_idle
    /\ scrape_idle
    /\ scheduler_idle

\* The longest string made of NormalizeChars
MaxLen == 3

\* The most applications in a row
MaxApplications == 2

\* A lower-case and an upper-case letter, a digit, the characters the
\* functions treat apart, and characters that change under lower() and NFKD
NormalizeChars == {"a", "B", "1", " ", "\t", "-", "%", "E_acute", "degree_celsius"}

\* Names that reach the synonym table, as users write them
Capsicum == <<"C","a","p","s","i","c","u","m">>

ICECREAM_sp == <<" ","I","C","E","C","R","E","A","M"," ">>

Fresh_Coriander == <<"F","r","e","s","h"," "," ","C","o","r","i","a","n","d","e","r">>

tomato_sauce == <<"t","o","m","a","t","o","-","s","a","u","c","e">>

NormalizeArgs ==
    SeqsUpTo(NormalizeChars, MaxLen)
        \cup {e[1] : e \in SYNONYMS_MAP} \cup {e[2] : e \in SYNONYMS_MAP}
        \cup {Capsicum, ICECREAM_sp, Fresh_Coriander, tomato_sauce}

InitNormalize ==
    /\ only_normalize
    /\ normalize_fn \in {"normalize_string", "normalize_item_name"}
    /\ normalize_arg \in NormalizeArgs
    /\ normalize_out = <<>>

\* The function is applied to what it returned last, first to the argument
normalize ==
    /\ normalize_fn # "none"
    /\ Len(normalize_out) < MaxApplications
    /\ LET s == IF normalize_out = <<>> THEN normalize_arg
                ELSE normalize_out[Len(normalize_out)]
       IN  normalize_out' =
            Append(normalize_out,
                   IF normalize_fn = "normalize_string"
                   THEN normalize_string(s)
                   ELSE normalize_item_name(s))
    /\ UNCHANGED <<normalize_fn, normalize_arg>>
    /\ UNCHANGED outside_normalize

NextNormalize == normalize

SpecNormalize == InitNormalize /\ [][NextNormalize]_vars

\* The string is empty or made of whitespace
Blank(s) == \A i \in DOMAIN s : s[i] \in Whitespace

\* ------------------------------------------------------------------------
\* C21: normalize_string and normalize_item_name are idempotent: applied
\* to what they returned they return it again, also for the names of the
\* synonym table; an empty or whitespace-only string gives the empty
\* string.
\* ------------------------------------------------------------------------
C21_Idempotent ==
    /\ \A i \in 2..Len(normalize_out) : normalize_out[i] = normalize_out[i - 1]
    /\ (normalize_out # <<>> /\ Blank(normalize_arg)) => normalize_out[1] = <<>>

\* normalize_item_name applied twice to a name the synonym table replaces,
\* written with capitals, punctuation or spaces the first pass removes
C21_Witness ==
    /\ normalize_fn = "normalize_item_name"
    /\ Len(normalize_out) = 2
    /\ normalize_arg \notin {e[1] : e \in SYNONYMS_MAP}
    /\ \E e \in SYNONYMS_MAP : e[1] # e[2] /\ normalize_out[1] = e[2]

\* ------------------------------------------------------------------------
\* build_product_spec on its own
\* ------------------------------------------------------------------------

\* The most words in a name
MaxNameWords == 2

\* The most variants
MaxVariants == 2

\* Words of names: base, optional and forbidden terms of the category
\* table as users write them, and a word the table does not know
BuildWords == {<<"L","e","c","h","e">>, leche, <<"H","U","E","V","O","S">>, chocolate, <<"A","v","e","n","a">>}

BuildNames ==
    {join(ws) : ws \in SeqsUpTo(BuildWords, MaxNameWords)} \cup {Null}

BuildVariantPool == {desnatada, <<"L","e","c","h","e"," "," ","E","n","t","e","r","a">>, <<>>, <<"M","i","l","k">>}

BuildVariants == SeqsUpTo(BuildVariantPool, MaxVariants)

InitBuild ==
    /\ only_build
    /\ build_name \in BuildNames
    /\ build_variants \in BuildVariants
    /\ build_out = <<>>

\* build_product_spec(name, variants=variants)
build ==
    /\ build_out = <<>>
    /\ build_out' = <<build_product_spec(build_name, Null, Null, build_variants)>>
    /\ UNCHANGED <<build_name, build_variants>>
    /\ UNCHANGED outside_build

NextBuild == build

SpecBuild == InitBuild /\ [][NextBuild]_vars

\* The tokens of the name followed by the tokens of each variant, as
\* normalize_string and split() give them
RawTokens ==
    split(normalize_string(str_or_empty(build_name)))
        \o Flatten([i \in DOMAIN build_variants |->
                        split(normalize_string(build_variants[i]))])

\* Where x comes first in s
FirstAt(s, x) == MinOf({i \in DOMAIN s : s[i] = x})

\* ------------------------------------------------------------------------
\* C22: the tokens of the ProductSpec build_product_spec returns hold no
\* token twice and keep the order in which the tokens were first seen,
\* those of the name before those of the variants; matched_rules is what
\* matching these tokens against the category table gives, and holds a
\* category exactly when one of its base terms is among the tokens.
\* ------------------------------------------------------------------------
C22_TokensAndRules ==
    \A n \in DOMAIN build_out :
        LET out == build_out[n]
            raw == RawTokens
        IN  /\ \A i, j \in DOMAIN out.tokens : i # j => out.tokens[i] # out.tokens[j]
            /\ Range(out.tokens) = Range(raw)
            /\ \A i, j \in DOMAIN out.tokens :
                    i < j => FirstAt(raw, out.tokens[i]) < FirstAt(raw, out.tokens[j])
            /\ out.matched_rules = _match_category_by_rules(out.tokens)
            /\ \A k \in DOMAIN CATEGORY_RULES :
                    (\E m \in DOMAIN out.matched_rules :
                        out.matched_rules[m].cat = CATEGORY_RULES[k].cat)
                    <=> Range(CATEGORY_RULES[k].base_terms) \cap Range(out.tokens) # {}

\* A name and variants that repeat a token, with a variant token the name
\* does not hold, matching one category of the table and not another
C22_Witness ==
    /\ Len(build_out) = 1
    /\ Len(RawTokens) > Len(build_out[1].tokens)
    /\ Len(build_out[1].tokens) > Len(dict_keys(split(normalize_string(str_or_empty(build_name)))))
    /\ build_out[1].matched_rules # <<>>
    /\ Len(build_out[1].matched_rules) < Len(CATEGORY_RULES)

\* ------------------------------------------------------------------------
\* refresh_service.py: async_refresh_shopping_list
\* ------------------------------------------------------------------------

\* The most items of a shopping list
MaxListItems == 2

\* The largest SCRAPER_MAX_RETRIES
MaxRetriesEnv == 2

\* SCRAPER_MAX_RETRIES holds the digits of n
EnvInt(n) == [int |-> TRUE, value |-> n]

\* SCRAPER_MAX_RETRIES holds something int() raises ValueError on
EnvNotInt == [int |-> FALSE, value |-> 0]

RefreshEnvs == {EnvInt(n) : n \in (-1)..MaxRetriesEnv} \cup {EnvNotInt}

\* ShoppingListItem(name, brand, category, variants)
ShoppingListItem(name, brand, category, variants) ==
    [name |-> name, brand |-> brand, category |-> category, variants |-> variants]

\* The item of test_refresh_updates_items and an item without category or
\* variants
ItemPool ==
    { ShoppingListItem(Leche_1L, Null, milk, <<"d","e","s","n","a","t","a","d","a",",","e","n","t","e","r","a">>),
      ShoppingListItem(<<"A","v","e","n","a">>, Null, Null, Null) }

\* s.split(",")
RECURSIVE split_comma(_)
split_comma(s) ==
    LET commas == {i \in DOMAIN s : s[i] = ","}
    IN  IF commas = {} THEN <<s>>
        ELSE <<SubSeq(s, 1, MinOf(commas) - 1)>>
                \o split_comma(SubSeq(s, MinOf(commas) + 1, Len(s)))

\* Lines 40-43: the ProductSpec of an item
item_spec(item_) ==
    LET variants == IF item_.variants # Null /\ item_.variants # <<>>
                    THEN split_comma(item_.variants) ELSE <<>>
    IN  build_product_spec(item_.name, item_.brand, item_.category, variants)

\* What a call of scraper.manager.get_offers through run_in_executor does:
\* it returns a list of offers or None, or it raises
ScrapedLists ==
    { <<>>,
      <<make_offer(Leche_desnatada_1L, StrPrice(<<"2">>), milk, <<>>)>>,
      <<make_offer(Leche_con_chocolate_1L, FloatPrice(1), milk, <<>>),
        make_offer(Leche_1L, FloatPrice(1), milk, <<>>)>> }

ReturnsNone == [kind |-> "returns None"]

ScrapeOutcomes ==
    {Returns(l) : l \in ScrapedLists} \cup {ReturnsNone, Raises(Test_error)}

\* Lines 77-149 for the items and offer lists in use: the offers counted
\* and the best offer chosen
compared ==
    [c \in {<<item_, list_>> : item_ \in ItemPool, list_ \in ScrapedLists} |->
        [offers_count |-> Len(c[2]),
         selected |-> filter_and_pick_best(item_spec(c[1]), c[2], 10).best]]

\* The row of an item nothing was committed for
NoRow == [committed |-> FALSE, offers_count |-> 0, selected |-> NoOffer]

InitRefresh ==
    /\ only_refresh
    /\ refresh_pc = "idle"
    /\ refresh_env \in RefreshEnvs
    /\ refresh_found \in BOOLEAN
    /\ refresh_list \in SeqsUpTo(ItemPool, MaxListItems)
    /\ refresh_index = 0
    /\ refresh_attempt = 0
    /\ refresh_offers = <<>>
    /\ scrape_log = <<>>
    /\ item_rows = [i \in DOMAIN refresh_list |-> NoRow]
    /\ refresh_summary = NoSummary
    /\ last_refreshed = FALSE

refresh_fixed == <<refresh_env, refresh_found, refresh_list>>

\* Lines 32-36: the list is looked up; ValueError when it is not found
async_refresh_shopping_list ==
    /\ refresh_pc = "idle"
    /\ IF ~refresh_found
       THEN /\ refresh_pc' = "raised"
            /\ UNCHANGED refresh_index
       ELSE /\ refresh_pc' = "item"
            /\ refresh_index' = 1
    /\ UNCHANGED <<refresh_attempt, refresh_offers, scrape_log, item_rows,
                   refresh_summary, last_refreshed>>
    /\ UNCHANGED <<refresh_fixed, outside_refresh>>

\* Lines 156-158: the exception of an item is recorded and the for loop
\* goes on
item_failed(summary_, error) ==
    [summary_ EXCEPT !.errors = Append(@, [item_id |-> refresh_index, error |-> error])]

\* Lines 38-50: the next item of the for loop, up to the while loop;
\* int() raises on a SCRAPER_MAX_RETRIES that is no integer
for_item ==
    /\ refresh_pc = "item"
    /\ refresh_index <= Len(refresh_list)
    /\ IF refresh_env.int
       THEN /\ refresh_pc' = "while"
            /\ scrape_log' = Append(scrape_log, <<>>)
            /\ UNCHANGED <<refresh_summary, refresh_index>>
       ELSE /\ refresh_summary' = item_failed(refresh_summary, "invalid literal for int()")
            /\ scrape_log' = Append(scrape_log, <<>>)
            /\ refresh_index' = refresh_index + 1
            /\ refresh_pc' = "item"
    /\ refresh_attempt' = 0
    /\ refresh_offers' = <<>>
    /\ UNCHANGED <<item_rows, last_refreshed>>
    /\ UNCHANGED <<refresh_fixed, outside_refresh>>

\* Line 51
loop_continues(attempt_, max_retries_) == attempt_ <= max_retries_

\* Line 68
gives_up(attempt_, max_retries_) == attempt_ > max_retries_

\* One turn of the while loop without the break of line 58
scrape_attempt_no_break ==
    /\ refresh_pc = "while"
    /\ Len(scrape_log[refresh_index]) <= MaxRetriesEnv + 2
    /\ LET max_retries == refresh_env.value
       IN  IF ~loop_continues(refresh_attempt, max_retries)
           THEN /\ refresh_pc' = "process"
                /\ UNCHANGED <<refresh_attempt, refresh_offers, scrape_log>>
           ELSE \E outcome \in ScrapeOutcomes :
                /\ scrape_log' = [scrape_log EXCEPT ![refresh_index] = Append(@, outcome.kind)]
                /\ IF outcome.kind = "returns"
                   THEN /\ refresh_offers' = outcome.offers
                        /\ refresh_pc' = "while"
                        /\ UNCHANGED refresh_attempt
                   ELSE IF outcome.kind = "returns None"
                   THEN /\ refresh_offers' = <<>>
                        /\ refresh_pc' = "while"
                        /\ UNCHANGED refresh_attempt
                   ELSE /\ refresh_attempt' = refresh_attempt + 1
                        /\ IF gives_up(refresh_attempt + 1, max_retries)
                           THEN /\ refresh_offers' = <<>>
                                /\ refresh_pc' = "process"
                           ELSE /\ refresh_pc' = "sleep"
                                /\ UNCHANGED refresh_offers
    /\ UNCHANGED <<refresh_index, item_rows, refresh_summary, last_refreshed>>
    /\ UNCHANGED <<refresh_fixed, outside_refresh>>

\* Lines 51-75: one turn of the while loop, up to the break or the sleep
scrape_attempt ==
    /\ refresh_pc = "while"
    /\ Len(scrape_log[refresh_index]) <= MaxRetriesEnv + 2
    /\ LET max_retries == refresh_env.value
       IN  IF ~loop_continues(refresh_attempt, max_retries)
           THEN /\ refresh_pc' = "process"
                /\ UNCHANGED <<refresh_attempt, refresh_offers, scrape_log>>
           ELSE \E outcome \in ScrapeOutcomes :
                /\ scrape_log' = [scrape_log EXCEPT ![refresh_index] = Append(@, outcome.kind)]
                /\ IF outcome.kind = "returns"
                   THEN /\ refresh_offers' = outcome.offers
                        /\ refresh_pc' = "process"
                        /\ UNCHANGED refresh_attempt
                   ELSE IF outcome.kind = "returns None"
                   THEN /\ refresh_offers' = <<>>
                        /\ refresh_pc' = "process"
                        /\ UNCHANGED refresh_attempt
                   ELSE /\ refresh_attempt' = refresh_attempt + 1
                        /\ IF gives_up(refresh_attempt + 1, max_retries)
                           THEN /\ refresh_offers' = <<>>
                                /\ refresh_pc' = "process"
                           ELSE /\ refresh_pc' = "sleep"
                                /\ UNCHANGED refresh_offers
    /\ UNCHANGED <<refresh_index, item_rows, refresh_summary, last_refreshed>>
    /\ UNCHANGED <<refresh_fixed, outside_refresh>>

\* Line 75: asyncio.sleep(backoff * attempt) is over
sleep_over ==
    /\ refresh_pc = "sleep"
    /\ refresh_pc' = "while"
    /\ UNCHANGED <<refresh_index, refresh_attempt, refresh_offers, scrape_log,
                   item_rows, refresh_summary, last_refreshed>>
    /\ UNCHANGED <<refresh_fixed, outside_refresh>>

\* process_item where the exception of an item leaves the function
process_item_abort ==
    /\ refresh_pc = "process"
    /\ \E commit_raises \in BOOLEAN :
        IF commit_raises
        THEN /\ refresh_pc' = "raised"
             /\ UNCHANGED <<item_rows, refresh_summary, refresh_index>>
        ELSE /\ item_rows' =
                    [item_rows EXCEPT ![refresh_index] =
                        [committed |-> TRUE,
                         offers_count |->
                            compared[<<refresh_list[refresh_index], refresh_offers>>].offers_count,
                         selected |->
                            compared[<<refresh_list[refresh_index], refresh_offers>>].selected]]
             /\ refresh_summary' =
                    [refresh_summary EXCEPT !.updated_items = @ + 1]
             /\ refresh_index' = refresh_index + 1
             /\ refresh_pc' = "item"
    /\ UNCHANGED <<refresh_attempt, refresh_offers, scrape_log, last_refreshed>>
    /\ UNCHANGED <<refresh_fixed, outside_refresh>>

\* Lines 77-158: the offers are compared and the item is committed and
\* counted; when db.commit() raises the item is recorded as failed
process_item ==
    /\ refresh_pc = "process"
    /\ \E commit_raises \in BOOLEAN :
        IF commit_raises
        THEN /\ refresh_summary' = item_failed(refresh_summary, "commit failed")
             /\ UNCHANGED item_rows
        ELSE /\ item_rows' =
                    [item_rows EXCEPT ![refresh_index] =
                        [committed |-> TRUE,
                         offers_count |->
                            compared[<<refresh_list[refresh_index], refresh_offers>>].offers_count,
                         selected |->
                            compared[<<refresh_list[refresh_index], refresh_offers>>].selected]]
             /\ refresh_summary' =
                    [refresh_summary EXCEPT !.updated_items = @ + 1]
    /\ refresh_index' = refresh_index + 1
    /\ refresh_pc' = "item"
    /\ UNCHANGED <<refresh_attempt, refresh_offers, scrape_log, last_refreshed>>
    /\ UNCHANGED <<refresh_fixed, outside_refresh>>

\* Lines 160-165: after the last item last_refreshed is set and committed
\* and the summary is returned
refresh_return ==
    /\ refresh_pc = "item"
    /\ refresh_index > Len(refresh_list)
    /\ last_refreshed' = TRUE
    /\ refresh_summary' = [refresh_summary EXCEPT !.last_refreshed = TRUE]
    /\ refresh_pc' = "returned"
    /\ UNCHANGED <<refresh_index, refresh_attempt, refresh_offers, scrape_log, item_rows>>
    /\ UNCHANGED <<refresh_fixed, outside_refresh>>

NextRefresh ==
    \/ async_refresh_shopping_list
    \/ for_item
    \/ scrape_attempt
    \/ sleep_over
    \/ process_item
    \/ refresh_return

SpecRefresh == InitRefresh /\ [][NextRefresh]_vars

\* The event loop resumes the coroutine whenever the call it awaits has
\* returned or raised or its sleep is over
SpecRefreshFair == SpecRefresh /\ WF_vars(NextRefresh)

\* The refresh is under way
Refreshing == refresh_pc \in {"item", "while", "sleep", "process"}

\* The calls of the scraper made for the i-th item
CallsFor(i) == Len(scrape_log[i])

\* The while loop of the i-th item is over
Scraped(i) == i < refresh_index \/ (i = refresh_index /\ refresh_pc = "process")

\* Every call made for the i-th item raised
AllRaised(i) == \A k \in DOMAIN scrape_log[i] : scrape_log[i][k] = "raises"

\* The items recorded in summary["errors"]
Failed == {refresh_summary.errors[k].item_id : k \in DOMAIN refresh_summary.errors}

\* ------------------------------------------------------------------------
\* C23: the retry loop of the refresh is bounded: for each item the
\* scraper is called at most SCRAPER_MAX_RETRIES + 1 times, no call
\* follows a call that returned, and after the last failed attempt the
\* item goes on with an empty offer list and is processed and counted
\* rather than recorded as failed; the loop always comes to an end.
\* ------------------------------------------------------------------------
C23_BoundedRetry ==
    /\ [](\A i \in DOMAIN scrape_log :
            /\ refresh_env.int =>
                    CallsFor(i) <= (IF refresh_env.value < 0 THEN 0 ELSE refresh_env.value + 1)
            /\ \A k \in DOMAIN scrape_log[i] :
                    scrape_log[i][k] # "raises" => k = CallsFor(i)
            /\ (Scraped(i) /\ AllRaised(i) /\ i = refresh_index) => refresh_offers = <<>>
            /\ \A e \in DOMAIN refresh_summary.errors :
                    refresh_summary.errors[e].error \in
                        {"invalid literal for int()", "commit failed"})
    /\ Refreshing ~> (refresh_pc = "returned")

\* A refresh that returned after SCRAPER_MAX_RETRIES + 1 >= 2 failed calls
\* for the first item, committed and counted with no offers, and a call
\* that returned on the second attempt for the second item
C23_Witness ==
    /\ refresh_pc = "returned"
    /\ Len(refresh_list) = 2
    /\ refresh_env.value >= 1
    /\ CallsFor(1) = refresh_env.value + 1
    /\ AllRaised(1)
    /\ item_rows[1].committed
    /\ item_rows[1].offers_count = 0
    /\ scrape_log[2] = <<"raises", "returns">>
    /\ item_rows[2].selected # NoOffer
    /\ refresh_summary.updated_items = 2

MaxScrapeRequests == 4

InitScrape ==
    /\ only_scrape
    /\ _scrape_in_progress = FALSE
    /\ app_env \in {"development", "test"}
    /\ scrape_handled = <<>>
    /\ scrape_queue = {}
    /\ scrape_running = {}

\* The handlers are coroutines of one event loop, and neither
\* scrape_all_products nor scrape_product awaits anything that suspends
\* (scraper_service.py 144-254): from its first line to its return a
\* scrape keeps the event loop, and no other coroutine runs meanwhile
loop_free == scrape_running = {}

\* The response of a handler
handler_responds(endpoint, status_code) ==
    scrape_handled' = Append(scrape_handled, [endpoint |-> endpoint, status |-> status_code])

\* Lines 51-78: POST /trigger/ up to the call of scrape_all_products;
\* ScraperService(db) may raise, which gives 500 after the finally clause
trigger_scrape ==
    /\ loop_free
    /\ Len(scrape_handled) < MaxScrapeRequests
    /\ IF _scrape_in_progress
       THEN /\ handler_responds("/trigger/", "409")
            /\ UNCHANGED <<_scrape_in_progress, scrape_running>>
       ELSE \E service_raises \in BOOLEAN :
            IF service_raises
            THEN /\ handler_responds("/trigger/", "500")
                 /\ _scrape_in_progress' = FALSE
                 /\ UNCHANGED scrape_running
            ELSE /\ handler_responds("/trigger/", "pending")
                 /\ _scrape_in_progress' = TRUE
                 /\ scrape_running' = scrape_running \cup {Len(scrape_handled) + 1}
    /\ UNCHANGED <<app_env, scrape_queue>>
    /\ UNCHANGED outside_scrape

\* Lines 78-96: scrape_all_products is over, the response is built and
\* the finally clause clears the flag
trigger_scrape_return ==
    /\ \E r \in scrape_running :
        /\ scrape_handled[r].status = "pending"
        /\ scrape_handled' = [scrape_handled EXCEPT ![r].status = "200"]
        /\ scrape_running' = scrape_running \ {r}
    /\ _scrape_in_progress' = FALSE
    /\ UNCHANGED <<app_env, scrape_queue>>
    /\ UNCHANGED outside_scrape

\* Lines 99-122: POST /refresh
refresh_prices ==
    /\ loop_free
    /\ Len(scrape_handled) < MaxScrapeRequests
    /\ IF _scrape_in_progress
       THEN /\ handler_responds("/refresh", "409")
            /\ UNCHANGED scrape_queue
       ELSE IF app_env = "test"
       THEN /\ handler_responds("/refresh", "202")
            /\ UNCHANGED scrape_queue
       ELSE /\ handler_responds("/refresh", "202")
            /\ scrape_queue' = scrape_queue \cup {Len(scrape_handled) + 1}
    /\ UNCHANGED <<_scrape_in_progress, app_env, scrape_running>>
    /\ UNCHANGED outside_scrape

\* Lines 139-163: POST /trigger-async/
trigger_scrape_async ==
    /\ loop_free
    /\ Len(scrape_handled) < MaxScrapeRequests
    /\ IF _scrape_in_progress
       THEN /\ handler_responds("/trigger-async/", "409")
            /\ UNCHANGED scrape_queue
       ELSE /\ handler_responds("/trigger-async/", "202")
            /\ scrape_queue' = scrape_queue \cup {Len(scrape_handled) + 1}
    /\ UNCHANGED <<_scrape_in_progress, app_env, scrape_running>>
    /\ UNCHANGED outside_scrape

\* Lines 125-131: the background task of a request starts, after the
\* response of the request was sent; when ScraperService(db) raises the
\* task is over at once
_run_background_scrape ==
    /\ loop_free
    /\ \E r \in scrape_queue :
        /\ scrape_queue' = scrape_queue \ {r}
        /\ \E service_raises \in BOOLEAN :
            IF service_raises
            THEN /\ _scrape_in_progress' = FALSE
                 /\ UNCHANGED scrape_running
            ELSE /\ _scrape_in_progress' = TRUE
                 /\ scrape_running' = scrape_running \cup {r}
    /\ UNCHANGED <<app_env, scrape_handled>>
    /\ UNCHANGED outside_scrape

\* Lines 131-136: the scrape of a background task is over
background_scrape_over ==
    /\ \E r \in scrape_running :
        /\ scrape_handled[r].status # "pending"
        /\ scrape_running' = scrape_running \ {r}
    /\ _scrape_in_progress' = FALSE
    /\ UNCHANGED <<app_env, scrape_handled, scrape_queue>>
    /\ UNCHANGED outside_scrape

NextScrape ==
    \/ trigger_scrape
    \/ trigger_scrape_return
    \/ refresh_prices
    \/ trigger_scrape_async
    \/ _run_background_scrape
    \/ background_scrape_over

SpecScrape == InitScrape /\ [][NextScrape]_vars

\* The scrapes accepted and not finished
Unfinished == scrape_queue \cup scrape_running

\* ------------------------------------------------------------------------
\* C24: at most one scrape runs at a time: a request handled while a
\* scrape that was accepted has not finished is answered 409, and
\* _scrape_in_progress is true as long as a scrape is running.
\* ------------------------------------------------------------------------
C24_OneScrapeAtATime ==
    /\ [](/\ Cardinality(scrape_running) <= 1
          /\ scrape_running # {} => _scrape_in_progress)
    /\ [][(Len(scrape_handled') > Len(scrape_handled) /\ Unfinished # {})
            => scrape_handled'[Len(scrape_handled')].status = "409"]_vars

\* ------------------------------------------------------------------------
\* services/scheduler.py: start_scheduler, stop_scheduler, _scheduler_loop
\* ------------------------------------------------------------------------

\* The most loop tasks created
MaxLoopTasks == 3

\* The most calls of start_scheduler and of stop_scheduler
MaxStartCalls == 4

MaxStopCalls == 3

InitScheduler ==
    /\ only_scheduler
    /\ _scheduler_task = 0
    /\ _stop_event = 0
    /\ stop_event_set = <<>>
    /\ loop_pc = <<>>
    /\ loop_event = <<>>
    /\ start_calls = <<>>
    /\ stop_calls = <<>>

\* task.done()
done(t) == loop_pc[t] = "done"

\* Lines 83-84
is_running == _scheduler_task # 0 /\ ~done(_scheduler_task)

\* is_running as it will be after the step
is_running_next == _scheduler_task' # 0 /\ loop_pc'[_scheduler_task'] # "done"

\* Lines 59-67: start_scheduler, called by the startup hook (main.py
\* 152-166) and by POST /scheduler/enable (routes/refresh.py 50-67); the
\* task and its event are created together and carry the same number
start_scheduler ==
    /\ Len(start_calls) < MaxStartCalls
    /\ IF _scheduler_task # 0 /\ ~done(_scheduler_task)
       THEN /\ start_calls' = Append(start_calls, "already running")
            /\ UNCHANGED <<_scheduler_task, _stop_event, stop_event_set, loop_pc, loop_event>>
       ELSE /\ Len(loop_pc) < MaxLoopTasks
            /\ start_calls' = Append(start_calls, "created")
            /\ _stop_event' = Len(stop_event_set) + 1
            /\ stop_event_set' = Append(stop_event_set, FALSE)
            /\ _scheduler_task' = Len(loop_pc) + 1
            /\ loop_pc' = Append(loop_pc, "created")
            /\ loop_event' = Append(loop_event, 0)
    /\ UNCHANGED stop_calls
    /\ UNCHANGED outside_scheduler

\* Lines 70-76: stop_scheduler up to the await; awaiting a task that is
\* done does not suspend, so the call goes on to line 79 and returns
stop_scheduler ==
    /\ Len(stop_calls) < MaxStopCalls
    /\ IF _scheduler_task = 0
       THEN /\ stop_calls' = Append(stop_calls, [awaits |-> 0, returned |-> TRUE])
            /\ UNCHANGED <<_scheduler_task, stop_event_set>>
       ELSE /\ stop_event_set' = [stop_event_set EXCEPT ![_stop_event] = TRUE]
            /\ IF done(_scheduler_task)
               THEN /\ stop_calls' = Append(stop_calls,
                                            [awaits |-> _scheduler_task, returned |-> TRUE])
                    /\ _scheduler_task' = 0
               ELSE /\ stop_calls' = Append(stop_calls,
                                            [awaits |-> _scheduler_task, returned |-> FALSE])
                    /\ UNCHANGED _scheduler_task
    /\ UNCHANGED <<_stop_event, loop_pc, loop_event, start_calls>>
    /\ UNCHANGED outside_scheduler

\* Lines 76-80: the awaited task is done and the calls awaiting it are
\* resumed one after the other, in the order of their awaits, with no
\* other coroutine between them; each sets _scheduler_task to None
stop_scheduler_return ==
    /\ \E t \in DOMAIN loop_pc :
        /\ done(t)
        /\ \E c \in DOMAIN stop_calls : stop_calls[c].awaits = t /\ ~stop_calls[c].returned
        /\ stop_calls' = [c \in DOMAIN stop_calls |->
                            IF stop_calls[c].awaits = t
                            THEN [stop_calls[c] EXCEPT !.returned = TRUE]
                            ELSE stop_calls[c]]
    /\ _scheduler_task' = 0
    /\ UNCHANGED <<_stop_event, stop_event_set, loop_pc, loop_event, start_calls>>
    /\ UNCHANGED outside_scheduler

\* Line 30: the test of the while loop reads the module's event; the loop
\* either ends or begins a pass (lines 31-42)
loop_test(t) ==
    /\ loop_pc' = [loop_pc EXCEPT ![t] =
                        IF stop_event_set[_stop_event] THEN "done" ELSE "pass"]
    /\ loop_event' = [loop_event EXCEPT ![t] = 0]

\* Lines 28-42: a task created by start_scheduler runs for the first time
_scheduler_loop ==
    /\ \E t \in DOMAIN loop_pc :
        /\ loop_pc[t] = "created"
        /\ loop_test(t)
    /\ UNCHANGED <<_scheduler_task, _stop_event, stop_event_set, start_calls, stop_calls>>
    /\ UNCHANGED outside_scheduler

\* Lines 42-52: the pass is over and the wait on the module's event
\* begins
pass_over ==
    /\ \E t \in DOMAIN loop_pc :
        /\ loop_pc[t] = "pass"
        /\ loop_pc' = [loop_pc EXCEPT ![t] = "wait"]
        /\ loop_event' = [loop_event EXCEPT ![t] = _stop_event]
    /\ UNCHANGED <<_scheduler_task, _stop_event, stop_event_set, start_calls, stop_calls>>
    /\ UNCHANGED outside_scheduler

\* Lines 52-54 and 30: the event waited on is set or the interval has
\* passed, and the loop is at its test again
interval_wait_over ==
    /\ \E t \in DOMAIN loop_pc :
        /\ loop_pc[t] = "wait"
        /\ loop_test(t)
    /\ UNCHANGED <<_scheduler_task, _stop_event, stop_event_set, start_calls, stop_calls>>
    /\ UNCHANGED outside_scheduler

NextScheduler ==
    \/ start_scheduler
    \/ stop_scheduler
    \/ stop_scheduler_return
    \/ _scheduler_loop
    \/ pass_over
    \/ interval_wait_over

SpecScheduler == InitScheduler /\ [][NextScheduler]_vars

\* The event loop runs every coroutine that is ready: a loop task that
\* can take a step takes it (a pass ends, a wait ends at the latest when
\* the interval has passed), and a stop_scheduler call whose task is done
\* is resumed
SpecSchedulerFair ==
    /\ SpecScheduler
    /\ WF_vars(_scheduler_loop)
    /\ WF_vars(pass_over)
    /\ WF_vars(interval_wait_over)
    /\ WF_vars(stop_scheduler_return)

\* The loop tasks alive
Alive == {t \in DOMAIN loop_pc : ~done(t)}

\* The tasks stop_scheduler was called on
StopCalledOn == {stop_calls[c].awaits : c \in DOMAIN stop_calls} \ {0}

\* ------------------------------------------------------------------------
\* C25: whatever the sequence and interleaving of start_scheduler and
\* stop_scheduler calls, at most one scheduler loop task is alive at any
\* time.
\* ------------------------------------------------------------------------
C25_AtMostOneLoopTask == Cardinality(Alive) <= 1

\* ------------------------------------------------------------------------
\* C26: once stop_scheduler is called on a running scheduler its loop
\* begins no further pass and eventually terminates; when stop_scheduler
\* returns is_running() is false; and a start_scheduler that creates a
\* loop gives it a fresh event that is not set.
\* ------------------------------------------------------------------------
C26_GracefulStop ==
    /\ [][\A t \in DOMAIN loop_pc :
            (loop_pc[t] # "pass" /\ loop_pc'[t] = "pass") => t \notin StopCalledOn]_vars
    /\ \A t \in 1..MaxLoopTasks :
            (t \in StopCalledOn) ~> (t \in DOMAIN loop_pc /\ done(t))
    /\ [][(\E c \in DOMAIN stop_calls' :
                stop_calls'[c].returned /\ (c \notin DOMAIN stop_calls \/ ~stop_calls[c].returned))
            => ~is_running_next]_vars
    /\ [][Len(loop_pc') > Len(loop_pc)
            => /\ _stop_event' \notin DOMAIN stop_event_set
               /\ ~stop_event_set'[_stop_event']]_vars

\* ------------------------------------------------------------------------
\* matching/normalize.py
\* ------------------------------------------------------------------------

\* unicodedata.normalize("NFD", c) of one character
NFD(c) ==
    IF c = "e_acute" THEN <<"e", "combining_acute">>
    ELSE IF c = "E_acute" THEN <<"E", "combining_acute">>
    ELSE IF c = "o_acute" THEN <<"o", "combining_acute">>
    ELSE IF c = "n_tilde" THEN <<"n", "combining_tilde">>
    ELSE IF c = "N_tilde" THEN <<"N", "combining_tilde">>
    ELSE <<c>>

\* unicodedata.category(c) = "Mn"
Mn(c) == c \in {"combining_acute", "combining_tilde"}

\* re.sub(r"[^a-z0-9\s+]", " ", text)
drop_punctuation(text) ==
    [i \in DOMAIN text |->
        IF text[i] \in Range(LowerLetters) \cup Digits \cup {"+"} \cup Whitespace
        THEN text[i] ELSE " "]

matching_normalize(text) ==
    IF text = <<>> THEN <<>>
    ELSE LET nfd == Flatten([i \in DOMAIN text |-> NFD(lower(text[i]))])
         IN  strip(collapse_whitespace(drop_punctuation(
                SelectSeq(nfd, LAMBDA ch : ~Mn(ch)))))

\* ------------------------------------------------------------------------
\* matching/filters.py
\* ------------------------------------------------------------------------
STOPWORDS == {<<"d","e">>, <<"c","o","n">>, <<"y">>, <<"e","n">>,
             <<"p","a","r","a">>, <<"e","l">>, <<"l","a">>, <<"l","o","s">>,
             <<"l","a","s">>, <<"d","e","l">>, <<"a","l">>}

bread == <<"b","r","e","a","d">>

matching_CATEGORY_RULES ==
    (milk :> [base_terms |-> <<<<"l","e","c","h","e">>>>,
              forbidden_terms |->
                <<<<"c","h","o","c","o","l","a","t","e">>, <<"c","a","c","a","o">>,
                  <<"b","a","t","i","d","o">>,
                  <<"c","a","p","p","u","c","c","i","n","o">>,
                  <<"e","s","p","r","e","s","s","o">>, <<"f","r","u","t","a">>,
                  <<"t","r","o","p","i","c","a","l">>,
                  <<"m","e","d","i","t","e","r","r","a","n","e","o">>,
                  <<"c","a","r","i","b","e">>, <<"c","e","r","e","a","l","e","s">>,
                  <<"g","a","l","l","e","t","a","s">>,
                  <<"r","e","l","l","e","n","o","s">>, <<"f","a","c","i","a","l">>,
                  <<"c","o","r","p","o","r","a","l">>,
                  <<"l","i","m","p","i","a","d","o","r","a">>, <<"p","o","l","v","o">>,
                  <<"l","a","c","t","a","n","t","e","s">>,
                  <<"c","o","n","t","i","n","u","a","c","i","o","n">>,
                  <<"i","n","f","a","n","t","i","l">>>>])
    @@ (eggs :> [base_terms |-> <<<<"h","u","e","v","o">>, <<"h","u","e","v","o","s">>>>,
                 forbidden_terms |-> <<chocolate, <<"p","a","s","c","u","a">>, <<"m","o","n","a">>,
                                       <<"c","a","r","a","m","e","l","o">>, <<"b","o","m","b","o","n">>>>])
    @@ (bread :> [base_terms |-> <<<<"p","a","n">>>>,
                  forbidden_terms |-> <<<<"g","a","l","l","e","t","a","s">>, <<"b","o","l","l","e","r","i","a">>, <<"b","i","z","c","o","c","h","o">>,
                                        <<"m","a","g","d","a","l","e","n","a","s">>>>])

get_category_rules(category_code) ==
    IF category_code \in DOMAIN matching_CATEGORY_RULES
    THEN matching_CATEGORY_RULES[category_code]
    ELSE [base_terms |-> <<>>, forbidden_terms |-> <<>>]

\* ------------------------------------------------------------------------
\* The specs and offers filter_and_pick_best of the shopping lists is
\* called with.  The price of an offer is in cents, a score in tenths.
\* ------------------------------------------------------------------------
MaxMatchingOffers == 3

\* ProductSpec(category_code, category_label, brand, variants, ...)
ProductSpec(category_code, category_label, brand, variants) ==
    [category_code |-> category_code, category_label |-> category_label,
     brand |-> brand, variants |-> variants]

\* The spec of test_milk_scoring_filters_obvious_false_positives, a spec
\* with a brand, one for eggs and one whose category has no rules
MatchingSpecs ==
    { ProductSpec(milk, <<"L","e","c","h","e">>, Null, <<desnatada>>),
      ProductSpec(milk, <<"L","e","c","h","e">>, <<"H","a","c","e","n","d","a","d","o">>, <<>>),
      ProductSpec(eggs, <<"H","u","e","v","o","s">>, Null, <<>>),
      ProductSpec(<<"o","a","t","s">>, <<"A","v","e","n","a">>, Null, <<>>) }

\* The four offers of the test and others: same price as another, no base
\* term, a forbidden term inside a longer word, under an accent or after
\* punctuation
MatchingOffers ==
    { Offer(mercadona, <<"L","e","c","h","e"," ","U","H","T"," ","d","e","s","n","a","t","a","d","a"," ","H","a","c","e","n","d","a","d","o"," ","1","L">>, 80, Null),
      Offer(mercadona, <<"L","e","c","h","e"," ","f","a","c","i","a","l"," ","l","i","m","p","i","a","d","o","r","a"," ","2","0","0","m","l">>, 250, Null),
      Offer(mercadona, <<"C","a","f","e"," ","c","o","n"," ","l","e","c","h","e"," ","c","a","p","p","u","c","c","i","n","o"," ","2","5","0","m","l">>, 120, Null),
      Offer(alcampo, <<"L","e","c","h","e"," ","d","e","s","n","a","t","a","d","a"," ","s","i","n"," ","l","a","c","t","o","s","a"," ","1","L">>, 90, Null),
      Offer(alcampo, <<"L","e","c","h","e"," ","e","n","t","e","r","a"," ","1","L">>, 80, Null),
      Offer(alcampo, <<"B","e","b","i","d","a"," ","d","e"," ","a","v","e","n","a">>, 70, Null),
      Offer(mercadona, <<"L","E","C","H","E"," ","C","h","o","c","o","l","a","t","e","a","d","a">>, 60, Null),
      Offer(mercadona, <<"L","e","c","h","e"," ","(","c","o","n","t","i","n","u","a","c","i","o_acute","n",")">>, 50, Null),
      Offer(alcampo, <<"H","u","e","v","o","s"," ","d","e"," ","c","h","o","c","o","l","a","t","e">>, 100, Null) }

\* set(normalize(s).split()) of the strings in use
name_tokens ==
    [s \in {o.name : o \in MatchingOffers}
            \cup {sp.category_label : sp \in MatchingSpecs}
            \cup {sp.brand : sp \in MatchingSpecs}
            \cup UNION {Range(sp.variants) : sp \in MatchingSpecs} |->
        Range(split(matching_normalize(s)))]

\* ------------------------------------------------------------------------
\* matching/scorer.py
\* ------------------------------------------------------------------------

\* The score of an offer a hard rule kills: -1e9, which in tenths is beyond
\* the integers at hand; -2e8 stands for it, under the -1e8 of line 61 as
\* it is
Kill == -2 * 10^9

matching_score_offer(spec_, offer) ==
    LET tokens == name_tokens[offer.name]
        rules == get_category_rules(spec_.category_code)
        base_terms == Range(rules.base_terms)
        forbidden_terms == Range(rules.forbidden_terms)
    IN  IF base_terms # {} /\ base_terms \cap tokens = {} THEN Kill
        ELSE IF forbidden_terms # {} /\ forbidden_terms \cap tokens # {} THEN Kill
        ELSE
          LET variant_tokens ==
                UNION {name_tokens[spec_.variants[i]] : i \in DOMAIN spec_.variants}
              brand_score ==
                IF spec_.brand # Null /\ spec_.brand # <<>>
                THEN IF name_tokens[spec_.brand] \cap tokens # {} THEN 30 ELSE -20
                ELSE 0
              cat_tokens == name_tokens[spec_.category_label]
              relevant == variant_tokens \cup cat_tokens
              extra_tokens == (tokens \ relevant) \ STOPWORDS
          IN  20 * Cardinality(variant_tokens \cap tokens) + brand_score
              + 15 * Cardinality(cat_tokens \cap tokens)
              - Cardinality(extra_tokens)

\* The key of line 68 turned round: (-score, price)
matching_sort_key_score_first(a, b) ==
    \/ -a[1] < -b[1]
    \/ a[1] = b[1] /\ a[2].price < b[2].price

\* Line 68: (price, -score) of a is less than that of b
matching_sort_key(a, b) ==
    \/ a[2].price < b[2].price
    \/ a[2].price = b[2].price /\ -a[1] < -b[1]

matching_filter_and_pick_best(spec_, offers_) ==
    LET with_score == [i \in DOMAIN offers_ |->
                        <<matching_score_offer(spec_, offers_[i]), offers_[i]>>]
        scored == SelectSeq(with_score, LAMBDA t : t[1] > -(10^9))
    IN  IF scored = <<>> THEN [best_offer |-> NoOffer, filtered_offers |-> <<>>]
        ELSE LET in_order == sorted(scored, matching_sort_key)
             IN  [best_offer |-> in_order[1][2],
                  filtered_offers |-> [i \in DOMAIN in_order |-> in_order[i][2]]]

\* ------------------------------------------------------------------------
\* matching/matcher_service.py: find_best_offer_for_item returns what
\* filter_and_pick_best returns for a spec and the offers of all scrapers
\* ------------------------------------------------------------------------
InitMatching ==
    /\ only_matching
    /\ matching_pc = "called"
    /\ matching_spec \in MatchingSpecs
    /\ matching_offers \in SeqsUpTo(MatchingOffers, MaxMatchingOffers)
    /\ best_offer = NoOffer
    /\ filtered_offers = <<>>

find_best_offer_for_item ==
    /\ matching_pc = "called"
    /\ LET result == matching_filter_and_pick_best(matching_spec, matching_offers)
       IN  /\ best_offer' = result.best_offer
           /\ filtered_offers' = result.filtered_offers
    /\ matching_pc' = "returned"
    /\ UNCHANGED <<matching_spec, matching_offers>>
    /\ UNCHANGED outside_matching

NextMatching == find_best_offer_for_item

SpecMatching == InitMatching /\ [][NextMatching]_vars

\* ------------------------------------------------------------------------
\* Vocabulary of the properties of the shopping lists' matching
\* ------------------------------------------------------------------------

\* The words of the offer's name once lowercased, without accents or
\* punctuation
NameWords(o) == name_tokens[o.name]

BaseTerms == Range(get_category_rules(matching_spec.category_code).base_terms)

ForbiddenOfCategory ==
    Range(get_category_rules(matching_spec.category_code).forbidden_terms)

\* The offer has a base term of the category, if it defines any, and none
\* of its forbidden terms, among the words of its name
PassesRules(o) ==
    /\ BaseTerms # {} => \E term \in BaseTerms : term \in NameWords(o)
    /\ \A term \in ForbiddenOfCategory : term \notin NameWords(o)

ShoppingScore(o) == matching_score_offer(matching_spec, o)

\* ------------------------------------------------------------------------
\* C30: in the shopping lists' matching, filter_and_pick_best returns in
\* filtered only offers given whose name words hold a base term of the
\* spec's category (when it defines base terms) and no forbidden term of
\* it; best is one of them, none of them is cheaper, and none at its price
\* has a higher score; when no offer given passes, best is None and
\* filtered is empty.
\* ------------------------------------------------------------------------
C30_FilteredAndCheapest ==
    matching_pc = "returned" =>
        /\ \A i \in DOMAIN filtered_offers :
            /\ filtered_offers[i] \in Range(matching_offers)
            /\ PassesRules(filtered_offers[i])
        /\ IF \E i \in DOMAIN matching_offers : PassesRules(matching_offers[i])
           THEN /\ best_offer \in Range(filtered_offers)
                /\ \A o \in Range(filtered_offers) :
                    /\ best_offer.price <= o.price
                    /\ o.price = best_offer.price =>
                            ShoppingScore(o) <= ShoppingScore(best_offer)
           ELSE /\ best_offer = NoOffer
                /\ filtered_offers = <<>>

\* A call where the cheapest offer given is rejected and two offers pass at
\* the same price: best is the one with the higher score though it was
\* given after the other
C30_Witness ==
    /\ matching_pc = "returned"
    /\ Len(filtered_offers) = 2
    /\ \E i \in DOMAIN matching_offers :
        /\ ~PassesRules(matching_offers[i])
        /\ matching_offers[i].price < best_offer.price
    /\ filtered_offers[1] = best_offer
    /\ filtered_offers[2].price = best_offer.price
    /\ ShoppingScore(filtered_offers[2]) < ShoppingScore(best_offer)
    /\ \E i, j \in DOMAIN matching_offers :
        /\ i < j
        /\ matching_offers[i] = filtered_offers[2]
        /\ matching_offers[j] = best_offer

====
